---- MODULE Spec2Model ----
(***************************************************************************)
(* Role reconciliation (updateRoles and the /updateroles confirm flow) and *)
(* bulk flag-role assignment (/alreadywanked, both bot revisions) of the   *)
(* BullaEND Discord bot, src/index.ts and src/unnamed/part_000.            *)
(***************************************************************************)
EXTENDS Integers, Sequences, FiniteSets, TLC

(***************************************************************************)
(* Bounds of the model                                                     *)
(***************************************************************************)
MaxPoints == 1
MaxThreshold == 2
MaxInitRoles == 1
MaxFailures == 1
MaxVerified == 5

(***************************************************************************)
(* Role constants, src/index.ts:77-94                                      *)
(***************************************************************************)
WHITELIST_ROLE_ID == "WHITELIST_ROLE"
MOOLALIST_ROLE_ID == "MOOLALIST_ROLE"
FREE_MINT_ROLE_ID == "FREE_MINT_ROLE"
FREE_MINT_WINNER_ROLE_ID == "FREE_MINT_WINNER_ROLE"
MOOTARD_ROLE_ID == "MOOTARD_ROLE"
NEW_WANKME_ROLE_ID == "NEW_WANKME_ROLE"
WL_WINNER_ROLE_ID == "WL_WINNER_ROLE"
ML_WINNER_ROLE_ID == "ML_WINNER_ROLE"
BULL_ROLE_ID == "BULL_ROLE"
BEAR_ROLE_ID == "BEAR_ROLE"
ADMIN_ROLE_IDS == {"ADMIN_ROLE_1", "ADMIN_ROLE_2", "ADMIN_ROLE_3", "ADMIN_ROLE_4"}

\* The six role objects updateRoles looks up in guild.roles.cache.
ThresholdRoleIds ==
  {WHITELIST_ROLE_ID, MOOLALIST_ROLE_ID, FREE_MINT_ROLE_ID,
   WL_WINNER_ROLE_ID, ML_WINNER_ROLE_ID, FREE_MINT_WINNER_ROLE_ID}

AllRoleIds ==
  ThresholdRoleIds \cup {MOOTARD_ROLE_ID, NEW_WANKME_ROLE_ID, BULL_ROLE_ID, BEAR_ROLE_ID}

\* The three role categories of updateRoles, in the order the loop body
\* evaluates them.
Categories == <<"whitelist", "moolalist", "freemint">>

CategorySet == {"whitelist", "moolalist", "freemint"}

BaseRole(cat) ==
  CASE cat = "whitelist" -> WHITELIST_ROLE_ID
    [] cat = "moolalist" -> MOOLALIST_ROLE_ID
    [] cat = "freemint"  -> FREE_MINT_ROLE_ID

WinnerRole(cat) ==
  CASE cat = "whitelist" -> WL_WINNER_ROLE_ID
    [] cat = "moolalist" -> ML_WINNER_ROLE_ID
    [] cat = "freemint"  -> FREE_MINT_WINNER_ROLE_ID

BaseRoleIds == {BaseRole(c) : c \in CategorySet}

(***************************************************************************)
(* The world: the users table, the guild, and the failures the two         *)
(* collaborators can produce.                                              *)
(***************************************************************************)
NoId == "null"

\* Discord ids: "a" and "b" are members of the guild, "y" and "z" have a row
\* in the users table but left the guild (guild.members.fetch rejects).
GuildIds == {"a", "b"}
GoneIds == {"y", "z"}

VARIABLES
  users,       \* users table: sequence of rows [discord_id, address, points, team]
  roles,       \* guild: member id -> set of role ids (member.roles.cache)
  present,     \* ids guild.members.fetch resolves
  grantFails,  \* <<id, role>> pairs for which member.roles.add rejects
  roleCache,   \* role ids guild.roles.cache.get finds
  storeDown,   \* TRUE: supabase queries return an error
  ur,          \* the updateRoles call in progress
  msg,         \* the /updateroles reply: its content and buttons
  aw,          \* the /alreadywanked handler in progress
  lb,          \* the /leaderboard message: its embed and buttons
  cmd,         \* the last invocation of another admin command: reply and effects
  WHITELIST_MINIMUM,  \* the module-level variable of index.ts:324
  runs,        \* two confirmed updateRoles calls in progress at the same time
  ops,         \* /fine and /transfer handlers in progress at the same time
  wk           \* a /wankme invocation and its polling timer

vars == <<users, roles, present, grantFails, roleCache, storeDown, ur, msg, aw,
          lb, cmd, WHITELIST_MINIMUM, runs, ops, wk>>

world == <<users, present, grantFails, roleCache, storeDown>>

conc == <<runs, ops, wk>>

others == <<lb, cmd, WHITELIST_MINIMUM, runs, ops, wk>>

(***************************************************************************)
(* Helpers                                                                 *)
(***************************************************************************)
AllIds == GuildIds \cup GoneIds

Row(id, address, points, team) ==
  [discord_id |-> id, address |-> address, points |-> points, team |-> team]

BoundedSubsets(S, k) == {T \in SUBSET S : Cardinality(T) <= k}

\* No leaderboard message has been sent. entries: the lines of the embed as
\* [position, discord_id, points]; yourRank: <<n>> when the "Your Rank" field
\* is shown, <<>> when it is omitted; walk: the entries of pages 1..page when
\* they were rendered one after the other on an unchanged users table;
\* stale: the users table has changed since the message was rendered.
NoBoard ==
  [kind |-> "none", owner |-> "none", teamOption |-> "none", page |-> 0,
   totalPages |-> 0, yourRank |-> <<>>, entries |-> <<>>,
   prevDisabled |-> TRUE, nextDisabled |-> TRUE, prevId |-> <<>>, nextId |-> <<>>,
   ephemeral |-> "none", walk |-> <<>>, walkFrom1 |-> FALSE, stale |-> FALSE]

\* No other admin command has been invoked. invoker: the roles of the
\* invoking member; user: interaction.user.id where the handler reads it; target and amount: the options of the command (NoId and
\* <<>> when left out); effects: what the handler did, out of "store_read",
\* "store_write", "member_fetch", "role_mutation", "config_write"; removed:
\* the removedCount of /purgezerobalance; files: the CSV files of /snapshot,
\* each with the arguments createCSV was called with; failing: the members
\* whose fetch or role removal rejected during /purgezerobalance.
NoCmd ==
  [name |-> "none", invoker |-> {}, target |-> "null", amount |-> <<>>,
   reply |-> "none", effects |-> {}, removed |-> 0, files |-> <<>>,
   failing |-> {}, user |-> "null"]

\* Variant of hasAdminRole that lets every member through.
hasAdminRole_Always(memberRoles) == TRUE

\* hasAdminRole: some role of the invoking member is an admin role.
hasAdminRole(memberRoles) == memberRoles \cap ADMIN_ROLE_IDS # {}

\* Role sets of the member that invokes a command or presses a button.
InvokerRoles == {{}, {"ADMIN_ROLE_2"}, {MOOTARD_ROLE_ID}}

\* supabase.rpc("sum_points_for_team"): sum of points over the rows of a team.
sum_points_for_team(rows, team_name) ==
  LET OfTeam(r) == r.team = team_name
      RECURSIVE Pts(_)
      Pts(s) == IF s = <<>> THEN 0 ELSE Head(s).points + Pts(Tail(s))
  IN Pts(SelectSeq(rows, OfTeam))

getTeamPoints(rows, down) ==
  [bullas |-> IF down THEN 0 ELSE sum_points_for_team(rows, "bullas"),
   beras  |-> IF down THEN 0 ELSE sum_points_for_team(rows, "beras")]

\* Variant of rolesAdd in which adding a role the member holds takes it away.
rolesAdd_Toggle(rs, role) == IF role \in rs THEN rs \ {role} ELSE rs \cup {role}

\* Variant of rolesAdd that sets the member's roles to the new role alone.
rolesAdd_Replace(rs, role) == {role}

\* Variant of rolesAdd that never reaches the guild.
rolesAdd_Lost(rs, role) == rs

\* member.roles.add(role)
rolesAdd(rs, role) == rs \cup {role}

\* Variant of HasCategoryRole that forgets the winner variant.
HasCategoryRole_BaseOnly(rs, cat) == BaseRole(cat) \in rs

\* member.roles.cache.has(base) || member.roles.cache.has(winner)
HasCategoryRole(rs, cat) == BaseRole(cat) \in rs \/ WinnerRole(cat) \in rs

\* player.points >= threshold; a comparison with NaN is false.
MeetsThreshold(points, threshold) == threshold # <<>> /\ points >= threshold[1]

EmptyLog ==
  [whitelist |-> [added |-> 0, existing |-> 0],
   moolalist |-> [added |-> 0, existing |-> 0],
   freemint  |-> [added |-> 0, existing |-> 0]]


(***************************************************************************)
(* Strings that are built and taken apart again (button customIds) are     *)
(* sequences of lexemes: a word is one lexeme, "_" is one lexeme, and a    *)
(* number is written as its decimal characters.                            *)
(***************************************************************************)
\* A JavaScript number that may be NaN: <<n>> is the integer n, <<>> is NaN.
NaN == <<>>

Num(n) == <<n>>

DigitChars == <<"0", "1", "2", "3", "4", "5", "6", "7", "8", "9">>

RECURSIVE NatToString(_)
NatToString(n) ==
  IF n < 10 THEN <<DigitChars[n + 1]>>
  ELSE NatToString(n \div 10) \o <<DigitChars[(n % 10) + 1]>>

\* `${n}` for an integer n
IntToString(n) == IF n < 0 THEN <<"-">> \o NatToString(0 - n) ELSE NatToString(n)

IsDigit(c) == \E i \in 1..10 : DigitChars[i] = c

DigitValue(c) == (CHOOSE i \in 1..10 : DigitChars[i] = c) - 1

RECURSIVE ParseDigits(_, _, _)
ParseDigits(s, acc, seen) ==
  IF s = <<>> \/ ~IsDigit(Head(s))
  THEN IF seen THEN Num(acc) ELSE NaN
  ELSE ParseDigits(Tail(s), 10 * acc + DigitValue(Head(s)), TRUE)

\* parseInt(s): optional sign, then the longest prefix of digits; NaN if none.
parseInt(s) ==
  IF s # <<>> /\ Head(s) = "-"
  THEN LET v == ParseDigits(Tail(s), 0, FALSE) IN IF v = NaN THEN NaN ELSE Num(0 - v[1])
  ELSE IF s # <<>> /\ Head(s) = "+" THEN ParseDigits(Tail(s), 0, FALSE)
  ELSE ParseDigits(s, 0, FALSE)

RECURSIVE SplitAcc(_, _, _)
SplitAcc(s, sep, cur) ==
  IF s = <<>> THEN <<cur>>
  ELSE IF Head(s) = sep THEN <<cur>> \o SplitAcc(Tail(s), sep, <<>>)
       ELSE SplitAcc(Tail(s), sep, Append(cur, Head(s)))

\* s.split(sep)
split(s, sep) == SplitAcc(s, sep, <<>>)

\* `confirm_update_${team}_${wlThreshold}_${mlThreshold}_${freemintThreshold}`
ConfirmCustomId(team, wlThreshold, mlThreshold, freemintThreshold) ==
  <<"confirm", "_", "update", "_", team, "_">> \o IntToString(wlThreshold)
    \o <<"_">> \o IntToString(mlThreshold)
    \o <<"_">> \o IntToString(freemintThreshold)

\* A one-lexeme piece of a split string read back as a word.
PieceToWord(piece) == IF Len(piece) = 1 THEN piece[1] ELSE "undefined"

\* customId.startsWith("confirm_update_")
IsConfirmCustomId(customId) ==
  /\ Len(customId) >= 4
  /\ SubSeq(customId, 1, 4) = <<"confirm", "_", "update", "_">>

(***************************************************************************)
(* updateRoles, src/index.ts:205-310                                       *)
(***************************************************************************)
IdleRun ==
  [pc |-> "idle", via |-> "none", invoker |-> {}, isSimulation |-> TRUE,
   teamType |-> "winning", thr |-> [whitelist |-> <<>>, moolalist |-> <<>>, freemint |-> <<>>],
   players |-> <<>>, idx |-> 1, log |-> EmptyLog, status |-> "none"]

\* Lines 233-240: the team the run targets.
TargetTeam(rows, down, teamType) ==
  LET teamPoints == getTeamPoints(rows, down)
      winningTeam == IF teamPoints.bullas > teamPoints.beras THEN "bullas" ELSE "beras"
  IN IF teamType = "winning" THEN winningTeam
     ELSE IF winningTeam = "bullas" THEN "beras" ELSE "bullas"

\* Lines 213-252: everything updateRoles does before its loop.
updateRolesStart(via, invoker, teamType, wlThreshold, mlThreshold, freemintThreshold, isSimulation) ==
  LET base == [IdleRun EXCEPT !.via = via, !.invoker = invoker,
                              !.isSimulation = isSimulation, !.teamType = teamType,
                              !.thr = [whitelist |-> wlThreshold,
                                       moolalist |-> mlThreshold,
                                       freemint  |-> freemintThreshold]]
      targetTeam == TargetTeam(users, storeDown, teamType)
      OfTarget(r) == r.team = targetTeam
      players == SelectSeq(users, OfTarget)
  IN IF ~(ThresholdRoleIds \subseteq roleCache)
     THEN [base EXCEPT !.pc = "return", !.status = "noroles"]
     ELSE IF storeDown
     THEN [base EXCEPT !.pc = "return", !.status = "queryerror"]
     ELSE [base EXCEPT !.players = players, !.status = "ok",
                       !.pc = IF players = <<>> THEN "return" ELSE "loop"]

\* Lines 260-269, 272-281, 284-296: one category block of the loop body.
\* st = [rs: the member's role cache, log, threw: an await in the body rejected].
CategoryBlock(st, cat, player, threshold, isSimulation, failing) ==
  IF st.threw THEN st
  ELSE IF MeetsThreshold(player.points, threshold)
  THEN IF ~HasCategoryRole(st.rs, cat)
       THEN IF ~isSimulation
            THEN IF <<player.discord_id, BaseRole(cat)>> \in failing
                 THEN [st EXCEPT !.threw = TRUE]
                 ELSE [st EXCEPT !.rs = rolesAdd(@, BaseRole(cat)),
                                 !.log[cat].added = @ + 1]
            ELSE [st EXCEPT !.log[cat].added = @ + 1]
       ELSE [st EXCEPT !.log[cat].existing = @ + 1]
  ELSE st

\* Variant of LoopPc in which a throw in the body ends the loop.
LoopPc_AbortOnThrow(run, threw) ==
  IF threw \/ run.idx + 1 > Len(run.players) THEN "return" ELSE "loop"

\* Lines 254, 298-307: the catch block logs and the for loop goes on to the
\* next player, whether or not the body threw.
LoopPc(run, threw) == IF run.idx + 1 > Len(run.players) THEN "return" ELSE "loop"

\* Variant of PlayerBody that treats a player without a resolvable member as
\* a member without roles.
PlayerBody_CountUnresolved(run, player, rs, resolvable, failing) ==
  LET s0 == [rs |-> rs, log |-> run.log, threw |-> FALSE]
      s1 == CategoryBlock(s0, Categories[1], player, run.thr.whitelist, run.isSimulation, failing)
      s2 == CategoryBlock(s1, Categories[2], player, run.thr.moolalist, run.isSimulation, failing)
  IN CategoryBlock(s2, Categories[3], player, run.thr.freemint, run.isSimulation, failing)

\* Lines 255-306: the loop body for one player.
PlayerBody(run, player, rs, resolvable, failing) ==
  LET s0 == [rs |-> rs, log |-> run.log, threw |-> FALSE]
      s1 == CategoryBlock(s0, Categories[1], player, run.thr.whitelist, run.isSimulation, failing)
      s2 == CategoryBlock(s1, Categories[2], player, run.thr.moolalist, run.isSimulation, failing)
      s3 == CategoryBlock(s2, Categories[3], player, run.thr.freemint, run.isSimulation, failing)
  IN IF player.discord_id = NoId THEN s0
     ELSE IF player.discord_id \notin resolvable THEN [s0 EXCEPT !.threw = TRUE]
     ELSE s3


(***************************************************************************)
(* The /updateroles command and its confirm / cancel buttons,              *)
(* src/index.ts:508-578 and 1156-1208                                      *)
(***************************************************************************)
\* kind, customId, log: what the reply shows now; ephemeral: the last
\* ephemeral reply; shown: the counters of the simulation embed the reply
\* showed last; invoker: the roles of the member of the last /updateroles or
\* confirm_update interaction.
NoMsg ==
  [kind |-> "none", customId |-> <<>>, log |-> EmptyLog, ephemeral |-> "none",
   shown |-> EmptyLog, invoker |-> {}]

\* The interactions that can be in progress at the same time.
Handlers == {1, 2}

\* A /fine or /transfer handler that has not been invoked. senderPoints and
\* receiverPoints: the points the handler has read.
IdleOp ==
  [pc |-> "idle", name |-> "none", user |-> "null", target |-> "null", amount |-> <<>>,
   senderPoints |-> 0, receiverPoints |-> 0, reply |-> "none"]

\* start: the users table before the first handler.
NoOps == [start |-> <<>>, of |-> [h \in Handlers |-> IdleOp]]

\* A confirmed updateRoles call that has not been started. cat: the category
\* block the loop body is in; adding: member.roles.add is awaited.
IdleConfirmed == [run |-> IdleRun, cat |-> 1, adding |-> FALSE]

\* roles0: the roles before the first call; customId: the customId of the
\* confirm button both interactions carry; overlapped: a call was started
\* while the other was in its loop.
NoRuns ==
  [roles0 |-> <<>>, customId |-> <<>>, overlapped |-> FALSE,
   of |-> [h \in Handlers |-> IdleConfirmed]]

\* No /wankme has been invoked. timer: the interval of the polling; ticks:
\* the callbacks the interval has started; lookups: the callbacks whose store
\* lookup has not returned; completions: the times the completion step ran;
\* followUps: the "Verification complete" messages sent.
NoWk ==
  [pc |-> "idle", user |-> "null", reply |-> "none", timer |-> "none", ticks |-> 0,
   lookups |-> 0, completions |-> 0, followUps |-> 0, expired |-> FALSE]

\* /updateroles: permission check, then the simulation run is started.
\* (interaction.guild is set whenever hasAdminRole holds, so the
\* "Guild not found" reply cannot follow a passed permission check.)
\* A behaviour follows one interaction to its end (a cancel or the end of the
\* confirmed run); the command can be repeated after a denial, and the role
\* holdings a later interaction starts from are varied in Init.
UpdateRolesWith(thresholds) ==
  \E invoker \in InvokerRoles, team \in {"winning", "losing"},
     wlThreshold \in thresholds, mlThreshold \in thresholds,
     freemintThreshold \in thresholds :
    /\ ur.pc \in {"idle", "done"}
    /\ aw.pc \in {"idle", "done"}
    /\ msg.kind \in {"none", "denied"}
    /\ IF ~hasAdminRole(invoker)
       THEN /\ msg' = [NoMsg EXCEPT !.kind = "denied", !.ephemeral = "denied",
                                    !.invoker = invoker]
            /\ UNCHANGED ur
       ELSE /\ msg' = [NoMsg EXCEPT !.kind = "deferred", !.invoker = invoker]
            /\ ur' = updateRolesStart("updateroles", invoker, team, Num(wlThreshold),
                                      Num(mlThreshold), Num(freemintThreshold), TRUE)
    /\ UNCHANGED <<world, others, roles, aw>>

UpdateRolesCommand == UpdateRolesWith(1..MaxThreshold)

\* One iteration of the for loop of updateRoles (lines 254-307).
UpdateRolesStep ==
  /\ ur.pc = "loop"
  /\ LET player == ur.players[ur.idx]
         id == player.discord_id
         rs == IF id \in DOMAIN roles THEN roles[id] ELSE {}
         s == PlayerBody(ur, player, rs, present, grantFails)
     IN /\ roles' = IF id \in DOMAIN roles THEN [roles EXCEPT ![id] = s.rs] ELSE roles
        /\ ur' = [ur EXCEPT !.log = s.log, !.idx = @ + 1, !.pc = LoopPc(ur, s.threw)]
  /\ UNCHANGED <<world, others, msg, aw>>

\* updateRoles returns its log and the calling handler edits its reply:
\* lines 541-573 after a simulation, lines 1197-1203 after a confirmed run.
UpdateRolesReturn ==
  /\ ur.pc = "return"
  /\ ur' = [ur EXCEPT !.pc = "done"]
  /\ msg' = IF ur.via = "updateroles"
            THEN [msg EXCEPT !.kind = "simulation", !.log = ur.log, !.shown = ur.log,
                             !.customId = ConfirmCustomId(ur.teamType, ur.thr.whitelist[1],
                                                          ur.thr.moolalist[1], ur.thr.freemint[1])]
            ELSE [msg EXCEPT !.kind = "completed", !.log = ur.log]
  /\ UNCHANGED <<world, others, roles, aw>>

\* The cancel_update button (lines 1160-1167).
CancelPress ==
  /\ msg.kind = "simulation"
  /\ msg' = [msg EXCEPT !.kind = "cancelled", !.customId = <<>>, !.log = EmptyLog]
  /\ UNCHANGED <<world, others, roles, ur, aw>>

\* The confirm_update_... button (lines 1170-1208).
ConfirmPress ==
  \E invoker \in InvokerRoles :
    /\ msg.kind = "simulation"
    /\ IsConfirmCustomId(msg.customId)
    /\ IF ~hasAdminRole(invoker)
       THEN /\ msg' = [msg EXCEPT !.ephemeral = "denied", !.invoker = invoker]
            /\ UNCHANGED ur
       ELSE LET pieces == split(msg.customId, "_")
                team == PieceToWord(pieces[3])
            IN /\ msg' = [msg EXCEPT !.kind = "executing", !.customId = <<>>,
                                     !.log = EmptyLog, !.ephemeral = "none",
                                     !.invoker = invoker]
               /\ ur' = updateRolesStart("confirm_update", invoker, team, parseInt(pieces[4]),
                                         parseInt(pieces[5]), parseInt(pieces[6]), FALSE)
    /\ UNCHANGED <<world, others, roles, aw>>

(***************************************************************************)
(* /alreadywanked: the paged revision, src/unnamed/part_000:293-442, and   *)
(* the unpaged revision, src/index.ts:583-652                              *)
(***************************************************************************)
\* part_000:312 has chunkSize = 1000 and part_000:340 has batchSize = 100;
\* the model keeps the ratio "several batches per chunk" at a size the
\* populations of the model can exceed.
chunkSize == 4
batchSize == 2

MaxAwRuns == 2

NoAddress == "null"

\* Order of discord_id values under "order by discord_id asc"; null sorts last.
IdAlphabet == <<"a", "b", "c", "d", "e", "f", "g", "h">>

IdRank(id) ==
  IF id = NoId THEN Len(IdAlphabet) + 1
  ELSE CHOOSE i \in 1..Len(IdAlphabet) : IdAlphabet[i] = id

RECURSIVE InsertById(_, _)
InsertById(row, sorted) ==
  IF sorted = <<>> THEN <<row>>
  ELSE IF IdRank(row.discord_id) < IdRank(Head(sorted).discord_id)
       THEN <<row>> \o sorted
       ELSE <<Head(sorted)>> \o InsertById(row, Tail(sorted))

RECURSIVE OrderByDiscordId(_)
OrderByDiscordId(rows) ==
  IF rows = <<>> THEN <<>>
  ELSE InsertById(Head(rows), OrderByDiscordId(Tail(rows)))

Min(a, b) == IF a < b THEN a ELSE b

\* .range(from, to): rows from..to of the result, 0-based and inclusive.
range(rows, from, to) == SubSeq(rows, from + 1, Min(to + 1, Len(rows)))

\* array.slice(from, to): elements from..to-1, 0-based.
slice(rows, from, to) == SubSeq(rows, from + 1, Min(to, Len(rows)))

\* .not("address", "is", null)
VerifiedUsers(rows) ==
  LET HasAddress(r) == r.address # NoAddress IN SelectSeq(rows, HasAddress)

Report(kind, added, existing, errors, processed) ==
  [kind |-> kind, added |-> added, existing |-> existing, errors |-> errors,
   processed |-> processed]

NoReport == Report("none", 0, 0, 0, 0)

\* verifiedUsers: the rows the handler holds; i: start of the current batch
\* (0-based); k: the user being processed (1-based); progress: the last
\* status message; final: the result message of this run; prev: the result
\* message of the run before; fetched: the discord_ids processed so far;
\* invoker: the roles of the member of the last /alreadywanked interaction.
IdleAw ==
  [pc |-> "idle", rev |-> "none", invoker |-> {}, status |-> "none",
   ephemeral |-> "none",
   verifiedUsers |-> <<>>, i |-> 0, k |-> 1, processedTotal |-> 0,
   totalAdded |-> 0, totalExisting |-> 0, totalErrors |-> 0,
   progress |-> NoReport, final |-> NoReport, prev |-> NoReport,
   runNo |-> 0, fetched |-> <<>>]

\* Variant of UserBody in which a member that does not resolve is not counted.
UserBody_DropUnresolved(rev, user, rs, resolvable, failing) ==
  IF user.discord_id = NoId \/ user.discord_id \notin resolvable
  THEN [rs |-> rs, outcome |-> "none"]
  ELSE IF NEW_WANKME_ROLE_ID \notin rs
       THEN IF <<user.discord_id, NEW_WANKME_ROLE_ID>> \in failing
            THEN [rs |-> rs, outcome |-> "error"]
            ELSE [rs |-> rolesAdd(rs, NEW_WANKME_ROLE_ID), outcome |-> "added"]
       ELSE [rs |-> rs, outcome |-> "existing"]

\* The body of the per-user loop: part_000:344-368 and index.ts:618-634.
\* Paged: a row without discord_id is an error; a fetch that fails gives
\* null, an error; a grant that throws is an error.
\* Unpaged: fetch(null) does not give a member and reading its roles throws,
\* a failed fetch throws, a failed grant throws: each is an error.
UserBody(rev, user, rs, resolvable, failing) ==
  IF rev = "paged"
  THEN IF user.discord_id = NoId THEN [rs |-> rs, outcome |-> "error"]
       ELSE IF user.discord_id \notin resolvable THEN [rs |-> rs, outcome |-> "error"]
       ELSE IF NEW_WANKME_ROLE_ID \notin rs
            THEN IF <<user.discord_id, NEW_WANKME_ROLE_ID>> \in failing
                 THEN [rs |-> rs, outcome |-> "error"]
                 ELSE [rs |-> rolesAdd(rs, NEW_WANKME_ROLE_ID), outcome |-> "added"]
            ELSE [rs |-> rs, outcome |-> "existing"]
  ELSE IF user.discord_id = NoId \/ user.discord_id \notin resolvable
       THEN [rs |-> rs, outcome |-> "error"]
       ELSE IF NEW_WANKME_ROLE_ID \notin rs
            THEN IF <<user.discord_id, NEW_WANKME_ROLE_ID>> \in failing
                 THEN [rs |-> rs, outcome |-> "error"]
                 ELSE [rs |-> rolesAdd(rs, NEW_WANKME_ROLE_ID), outcome |-> "added"]
            ELSE [rs |-> rs, outcome |-> "existing"]

\* /alreadywanked up to its first loop iteration.
AlreadyWankedCommand ==
  \E invoker \in InvokerRoles, rev \in {"paged", "unpaged"} :
    /\ aw.pc \in {"idle", "done"}
    /\ ur.pc = "idle"
    /\ aw.runNo < MaxAwRuns
    /\ LET fresh == [IdleAw EXCEPT !.rev = rev, !.invoker = invoker,
                                   !.runNo = aw.runNo + 1,
                                   !.prev = aw.final, !.status = "running"]
           all == VerifiedUsers(users)
       IN aw' =
            IF ~hasAdminRole(invoker)
            THEN [aw EXCEPT !.ephemeral = "denied", !.invoker = invoker]
            ELSE IF rev = "paged"
            THEN IF NEW_WANKME_ROLE_ID \notin roleCache
                 THEN [fresh EXCEPT !.pc = "done", !.status = "norole"]
                 ELSE [fresh EXCEPT !.pc = "query"]
            ELSE IF storeDown
                 THEN [fresh EXCEPT !.pc = "done", !.status = "error"]
                 ELSE IF NEW_WANKME_ROLE_ID \notin roleCache
                 THEN [fresh EXCEPT !.pc = "done", !.status = "norole"]
                 ELSE [fresh EXCEPT !.verifiedUsers = all,
                                    !.pc = IF all = <<>> THEN "final" ELSE "user"]
    /\ UNCHANGED <<world, others, roles, ur, msg>>

\* part_000:326-338: the next page of the paging cursor.
QueryPage ==
  /\ aw.pc = "query"
  /\ LET page == range(OrderByDiscordId(VerifiedUsers(users)),
                       aw.processedTotal, aw.processedTotal + chunkSize - 1)
     IN aw' = IF storeDown
              THEN [aw EXCEPT !.pc = "done", !.status = "error"]
              ELSE IF page = <<>>
              THEN [aw EXCEPT !.pc = "final"]
              ELSE [aw EXCEPT !.verifiedUsers = page, !.i = 0, !.k = 1, !.pc = "user"]
  /\ UNCHANGED <<world, others, roles, ur, msg>>

\* One user of the loop: part_000:344-368, index.ts:618-634.
ProcessUser ==
  /\ aw.pc = "user"
  /\ LET user == aw.verifiedUsers[aw.k]
         id == user.discord_id
         rs == IF id \in DOMAIN roles THEN roles[id] ELSE {}
         s == UserBody(aw.rev, user, rs, present, grantFails)
         batch == slice(aw.verifiedUsers, aw.i, aw.i + batchSize)
         lastOfBatch == aw.k + 1 > aw.i + Len(batch)
         lastOfAll == aw.k + 1 > Len(aw.verifiedUsers)
     IN /\ roles' = IF id \in DOMAIN roles THEN [roles EXCEPT ![id] = s.rs] ELSE roles
        /\ aw' = [aw EXCEPT
                    !.totalAdded = IF s.outcome = "added" THEN @ + 1 ELSE @,
                    !.totalExisting = IF s.outcome = "existing" THEN @ + 1 ELSE @,
                    !.totalErrors = IF s.outcome = "error" THEN @ + 1 ELSE @,
                    !.fetched = Append(@, id),
                    !.k = @ + 1,
                    !.pc = IF aw.rev = "paged"
                           THEN IF lastOfBatch THEN "report" ELSE "user"
                           ELSE IF lastOfAll THEN "final" ELSE "user"]
  /\ UNCHANGED <<world, others, ur, msg>>

\* part_000:370-410: the end of a batch; the status message is edited, or
\* sent anew with the same counters when the edit fails.
ReportProgress ==
  /\ aw.pc = "report"
  /\ LET batch == slice(aw.verifiedUsers, aw.i, aw.i + batchSize)
         total == aw.processedTotal + Len(batch)
     IN aw' = [aw EXCEPT
                 !.processedTotal = total,
                 !.progress = Report("progress", aw.totalAdded, aw.totalExisting,
                                     aw.totalErrors, total),
                 !.i = @ + batchSize,
                 !.pc = IF aw.i + batchSize < Len(aw.verifiedUsers) THEN "user" ELSE "query"]
  /\ UNCHANGED <<world, others, roles, ur, msg>>

\* part_000:414-432 and index.ts:636-647: the result message.
FinalReport ==
  /\ aw.pc = "final"
  /\ aw' = [aw EXCEPT
              !.pc = "done", !.status = "ok",
              !.final = Report("final", aw.totalAdded, aw.totalExisting, aw.totalErrors,
                               IF aw.rev = "paged" THEN aw.processedTotal
                               ELSE Len(aw.verifiedUsers))]
  /\ UNCHANGED <<world, others, roles, ur, msg>>

\* Candidate verified rows, in the order the table holds them.
AwRowIds == <<"d", "a", NoId, "c", "b", "f", "e", "g">>

AwIds == {"a", "b", "c", "d", "e", "f", "g", "h"}

InitAW ==
  /\ \E n \in 0..MaxVerified :
       LET verified == [i \in 1..n |-> Row(AwRowIds[i], "0xW", 0, "bullas")]
           unverified == Row("h", NoAddress, 0, "beras")
           ids == {AwRowIds[i] : i \in 1..n} \ {NoId}
       IN /\ users = IF n = 0 THEN <<unverified>>
                     ELSE <<verified[1], unverified>> \o Tail(verified)
          /\ \E gone \in BoundedSubsets(ids, 1) : present = (ids \ gone) \cup {"h"}
          /\ \E holders \in BoundedSubsets(ids, MaxInitRoles) :
               roles = [id \in AwIds |-> IF id \in holders THEN {NEW_WANKME_ROLE_ID}
                                         ELSE IF id = "a" THEN {MOOTARD_ROLE_ID} ELSE {}]
          /\ grantFails \in BoundedSubsets(ids \X {NEW_WANKME_ROLE_ID}, MaxFailures)
  /\ roleCache \in {AllRoleIds, AllRoleIds \ {NEW_WANKME_ROLE_ID}}
  /\ storeDown \in BOOLEAN
  /\ (storeDown \/ roleCache # AllRoleIds) => grantFails = {}
  /\ ur = IdleRun
  /\ msg = NoMsg
  /\ aw = IdleAw
  /\ lb = NoBoard
  /\ cmd = NoCmd
  /\ WHITELIST_MINIMUM = 100
  /\ runs = NoRuns
  /\ ops = NoOps
  /\ wk = NoWk

NextAW ==
  \/ AlreadyWankedCommand
  \/ QueryPage
  \/ ProcessUser
  \/ ReportProgress
  \/ FinalReport

SpecAW == InitAW /\ [][NextAW]_vars

(***************************************************************************)
(* The reconciliation specification                                        *)
(***************************************************************************)
\* Threshold roles members hold before the command, as <<member, role>> pairs:
\* nothing, base roles, winner roles, and mixes of the two across categories.
RoleSeeds ==
  { {},
    {<<"a", WHITELIST_ROLE_ID>>, <<"b", ML_WINNER_ROLE_ID>>},
    {<<"a", WL_WINNER_ROLE_ID>>, <<"b", MOOLALIST_ROLE_ID>>,
     <<"b", FREE_MINT_WINNER_ROLE_ID>>},
    {<<"a", MOOLALIST_ROLE_ID>>, <<"a", FREE_MINT_ROLE_ID>>,
     <<"b", WL_WINNER_ROLE_ID>>},
    {<<"a", ML_WINNER_ROLE_ID>>, <<"a", FREE_MINT_WINNER_ROLE_ID>>,
     <<"b", WHITELIST_ROLE_ID>>, <<"b", FREE_MINT_ROLE_ID>>},
    {<<"a", WHITELIST_ROLE_ID>>, <<"a", WL_WINNER_ROLE_ID>>,
     <<"b", MOOLALIST_ROLE_ID>>, <<"b", ML_WINNER_ROLE_ID>>} }

InitUR ==
  /\ \E pa \in 0..MaxPoints, pb \in 0..MaxPoints :
       users = << Row("a", "0xA", pa, "bullas"),
                  Row("z", "0xZ", MaxPoints, "bullas"),
                  Row(NoId, "0xN", MaxPoints, "bullas"),
                  Row("b", "0xB", pb, "bullas"),
                  Row("y", "0xY", 2 * MaxPoints + 1, "beras") >>
  /\ present = GuildIds
  /\ \E seeded \in RoleSeeds :
       roles = [id \in AllIds |->
                  {r \in ThresholdRoleIds : <<id, r>> \in seeded}
                    \cup (IF id = "a" THEN {BULL_ROLE_ID} ELSE {})]
  /\ grantFails \in BoundedSubsets(GuildIds \X BaseRoleIds, MaxFailures)
  /\ roleCache \in {AllRoleIds, AllRoleIds \ {FREE_MINT_WINNER_ROLE_ID}}
  /\ storeDown \in BOOLEAN
  /\ (storeDown \/ roleCache # AllRoleIds) => grantFails = {}
  /\ ur = IdleRun
  /\ msg = NoMsg
  /\ aw = IdleAw
  /\ lb = NoBoard
  /\ cmd = NoCmd
  /\ WHITELIST_MINIMUM = 100
  /\ runs = NoRuns
  /\ ops = NoOps
  /\ wk = NoWk

NextUR ==
  \/ UpdateRolesCommand
  \/ UpdateRolesStep
  \/ UpdateRolesReturn
  \/ CancelPress
  \/ ConfirmPress

SpecUR == InitUR /\ [][NextUR]_vars

(***************************************************************************)
(* /leaderboard and its prev/next buttons: src/index.ts:1041-1150 and      *)
(* 1210-1316. src/unnamed/part_000:636-733 and 742-841 are the same code   *)
(* without the "all" team option.                                          *)
(***************************************************************************)
\* index.ts:1045 and 1227 have itemsPerPage = 10; the model keeps pages of
\* several entries at a size the tables of the model can exceed.
itemsPerPage == 2

MaxBoardUsers == 6
MaxTies == 1
MaxPage == 4

\* index.ts:315-319 lists three ids; one stands for them.
EXCLUDED_USER_IDS == {"x"}

\* The rows the users table can hold, in insertion order.
BoardIds == <<"a", "b", "x", "c", "d", "e", "f", "g">>

BoardTeams ==
  <<"bullas", "bullas", "bullas", "beras", "bullas", "bullas", "beras", "bullas">>

BoardTopPoints == 10 * (Len(BoardIds) + 1)

\* Members that run /leaderboard or press its buttons: "d" has a row in the
\* larger tables only, "x" is excluded.
BoardCallers == {"d", "x"}

\* The table of n rows in which the rows of ties have the points of the row
\* before them and every other row has 10 points less.
RECURSIVE BoardTable(_, _)
BoardTable(n, ties) ==
  IF n = 0 THEN <<>>
  ELSE LET before == BoardTable(n - 1, ties)
           points == IF n = 1 THEN BoardTopPoints
                     ELSE IF n \in ties THEN before[n - 1].points
                     ELSE before[n - 1].points - 10
       IN Append(before, Row(BoardIds[n], "0xL", points, BoardTeams[n]))

\* Variant of NotExcluded that lets every row through.
NotExcluded_Everyone(rows) == rows

\* .not("discord_id", "in", `(${EXCLUDED_USER_IDS.join(",")})`)
NotExcluded(rows) ==
  LET Keep(r) == r.discord_id \notin EXCLUDED_USER_IDS IN SelectSeq(rows, Keep)

\* if (teamOption !== "all") query = query.eq("team", teamOption)
TeamFilter(rows, teamOption) ==
  LET OfTeam(r) == r.team = teamOption
  IN IF teamOption # "all" THEN SelectSeq(rows, OfTeam) ELSE rows

RemoveAt(rows, i) == SubSeq(rows, 1, i - 1) \o SubSeq(rows, i + 1, Len(rows))

\* .order("points", { ascending: false }): the orders the store can return
\* the rows in. Rows of equal points have no order of their own: every query
\* returns them in an order of its choosing.
RECURSIVE OrderByPointsDesc(_)
OrderByPointsDesc(rows) ==
  IF rows = <<>> THEN {<<>>}
  ELSE LET top == {i \in 1..Len(rows) :
                     \A j \in 1..Len(rows) : rows[j].points <= rows[i].points}
       IN UNION {{<<rows[i]>> \o rest : rest \in OrderByPointsDesc(RemoveAt(rows, i))}
                 : i \in top}

\* The results the rank query and the page query can have before .range.
LeaderboardQuery(rows, teamOption) ==
  OrderByPointsDesc(TeamFilter(NotExcluded(rows), teamOption))

\* allUsers.findIndex((user) => user.discord_id === interaction.user.id):
\* 0-based, -1 when no row has the id.
findIndex(rows, id) ==
  IF \E i \in 1..Len(rows) : rows[i].discord_id = id
  THEN (CHOOSE i \in 1..Len(rows) :
          /\ rows[i].discord_id = id
          /\ \A j \in 1..(i - 1) : rows[j].discord_id # id) - 1
  ELSE -1

\* Variant of ceil that rounds down.
ceil_Down(count, perPage) == count \div perPage

\* Math.ceil(count / itemsPerPage) for count >= 0
ceil(count, perPage) == (count + perPage - 1) \div perPage

\* `prev_${teamOption}_${page}` and `next_${teamOption}_${page}`
PageCustomId(action, teamOption, page) ==
  <<action, "_", teamOption, "_">> \o IntToString(page)

\* Variant of NextDisabled that never disables the button.
NextDisabled_Never(page, totalPages) == FALSE

\* .setDisabled(page >= totalPages)
NextDisabled(page, totalPages) == page >= totalPages

\* .setDisabled(page <= 1)
PrevDisabled(page) == page <= 1

\* The embed and the button row: index.ts:1085-1140 and 1259-1303.
\* position = skip + index + 1 with a 0-based index.
LeaderboardEmbed(owner, teamOption, page, userRank, leaderboardData, count) ==
  LET skip == (page - 1) * itemsPerPage
      totalPages == ceil(count, itemsPerPage)
  IN [NoBoard EXCEPT
        !.kind = "page", !.owner = owner, !.teamOption = teamOption, !.page = page,
        !.totalPages = totalPages,
        !.yourRank = IF userRank # -1 THEN <<userRank + 1>> ELSE <<>>,
        !.entries = [index \in 1..Len(leaderboardData) |->
                       [position |-> skip + index,
                        discord_id |-> leaderboardData[index].discord_id,
                        points |-> leaderboardData[index].points]],
        !.prevDisabled = PrevDisabled(page),
        !.nextDisabled = NextDisabled(page, totalPages),
        !.prevId = PageCustomId("prev", teamOption, page),
        !.nextId = PageCustomId("next", teamOption, page)]

\* const { data: allUsers } = await rankQuery; allUsers?.findIndex(...) ?? -1:
\* the error of the rank query is not looked at, a failed rank query leaves
\* allUsers null and userRank -1.
UserRanks(results, id, rankQueryFails) ==
  IF rankQueryFails THEN {-1}
  ELSE {findIndex(allUsers, id) : allUsers \in results}

\* /leaderboard. The page option is optional with a minimum of 1
\* (index.ts:463-467); <<>> stands for the option left out. Each of the two
\* queries can fail on its own; storeDown fails both. A failed page query
\* throws.
LeaderboardCommand ==
  \E caller \in BoardCallers, teamOption \in {"bullas", "beras", "all"},
     pageOption \in {<<>>} \cup {<<n>> : n \in 1..MaxPage},
     rankQueryFails \in BOOLEAN :
    /\ lb.kind \in {"none", "nousers", "error"}
    /\ LET page == IF pageOption = <<>> THEN 1 ELSE pageOption[1]
           skip == (page - 1) * itemsPerPage
           results == LeaderboardQuery(users, teamOption)
       IN \E userRank \in UserRanks(results, caller, rankQueryFails \/ storeDown),
             leaderboardData \in {range(ranked, skip, skip + itemsPerPage - 1)
                                    : ranked \in results} :
            LET count == Len(TeamFilter(NotExcluded(users), teamOption))
                shown == LeaderboardEmbed(caller, teamOption, page, userRank,
                                          leaderboardData, count)
            IN lb' = IF storeDown
                     THEN [NoBoard EXCEPT !.kind = "error", !.owner = caller]
                     ELSE IF leaderboardData = <<>>
                     THEN [NoBoard EXCEPT !.kind = "nousers", !.owner = caller,
                                          !.teamOption = teamOption, !.page = page]
                     ELSE [shown EXCEPT !.walk = IF page = 1 THEN shown.entries ELSE <<>>,
                                        !.walkFrom1 = (page = 1)]
    /\ UNCHANGED <<world, roles, ur, msg, aw, cmd, WHITELIST_MINIMUM, conc>>

\* A press of an enabled prev or next button: index.ts:1210-1316. An embed
\* field with an empty value is rejected (no row in the requested range), so
\* the handler ends in its catch block, which removes the buttons.
PagePress ==
  \E presser \in BoardCallers, button \in {"prev", "next"}, rankQueryFails \in BOOLEAN :
    /\ lb.kind = "page"
    /\ ~(IF button = "prev" THEN lb.prevDisabled ELSE lb.nextDisabled)
    /\ LET pieces == split(IF button = "prev" THEN lb.prevId ELSE lb.nextId, "_")
           action == PieceToWord(pieces[1])
           teamOption == PieceToWord(pieces[2])
           currentPage == parseInt(pieces[3])
           newPage == IF action = "next" THEN currentPage[1] + 1 ELSE currentPage[1] - 1
           skip == (newPage - 1) * itemsPerPage
           results == LeaderboardQuery(users, teamOption)
       IN IF presser # lb.owner
          THEN lb' = [lb EXCEPT !.ephemeral = "notowner"]
          ELSE \E userRank \in UserRanks(results, presser, rankQueryFails \/ storeDown),
                  leaderboardData \in {range(ranked, skip, skip + itemsPerPage - 1)
                                         : ranked \in results} :
                 LET count == Len(TeamFilter(NotExcluded(users), teamOption))
                     shown == LeaderboardEmbed(presser, teamOption, newPage, userRank,
                                               leaderboardData, count)
                 IN lb' = IF storeDown \/ leaderboardData = <<>>
                          THEN [NoBoard EXCEPT !.kind = "error", !.owner = presser]
                          ELSE [shown EXCEPT
                                  !.walk = IF action = "next" /\ lb.walkFrom1
                                           THEN lb.walk \o shown.entries ELSE <<>>,
                                  !.walkFrom1 = (action = "next" /\ lb.walkFrom1)]
    /\ UNCHANGED <<world, roles, ur, msg, aw, cmd, WHITELIST_MINIMUM, conc>>

\* Between two presses a row is inserted into the users table or deleted
\* from it by another writer (one change per rendered page).
StoreChange ==
  /\ lb.kind = "page"
  /\ ~lb.stale
  /\ \/ /\ users # <<>>
        /\ users' = SubSeq(users, 1, Len(users) - 1)
     \/ /\ Len(users) < MaxBoardUsers
        /\ \E tied \in BOOLEAN :
             LET n == Len(users) + 1
                 points == IF n = 1 THEN BoardTopPoints
                           ELSE IF tied THEN users[n - 1].points
                           ELSE users[n - 1].points - 10
             IN users' = Append(users, Row(BoardIds[n], "0xL", points, BoardTeams[n]))
  /\ lb' = [lb EXCEPT !.walk = <<>>, !.walkFrom1 = FALSE, !.stale = TRUE]
  /\ UNCHANGED <<roles, present, grantFails, roleCache, storeDown, ur, msg, aw, cmd,
                 WHITELIST_MINIMUM, conc>>

InitLB ==
  /\ \E n \in 0..MaxBoardUsers :
       \E ties \in BoundedSubsets(2..n, MaxTies) : users = BoardTable(n, ties)
  /\ present = {}
  /\ roles = [id \in AllIds |-> {}]
  /\ grantFails = {}
  /\ roleCache = AllRoleIds
  /\ storeDown \in BOOLEAN
  /\ ur = IdleRun
  /\ msg = NoMsg
  /\ aw = IdleAw
  /\ lb = NoBoard
  /\ cmd = NoCmd
  /\ WHITELIST_MINIMUM = 100
  /\ runs = NoRuns
  /\ ops = NoOps
  /\ wk = NoWk

NextLB ==
  \/ LeaderboardCommand
  \/ PagePress
  \/ StoreChange

SpecLB == InitLB /\ [][NextLB]_vars

(***************************************************************************)
(* The other admin commands of src/index.ts: /purgezerobalance 657-702,    *)
(* /transfer 707-791, /snapshot 905-954, /fine 959-1014 and                *)
(* /updatewhitelistminimum 1019-1036                                       *)
(***************************************************************************)
MaxAmount == 2

\* Integer options as the handlers read them: <<>> when the option is left
\* out, <<n>> otherwise.
Amounts == {<<>>} \cup {<<n>> : n \in (0 - MaxAmount)..MaxAmount}

\* The user option: a member with a row, a member without one, or left out.
CmdTargets == {"a", "b", "q", NoId}

\* interaction.user.id of the invoking member.
CmdUserIds == {"a", "q"}

\* !amount of JavaScript: the option is left out or is 0.
Falsy(amount) == amount = <<>> \/ amount[1] = 0

\* .eq("discord_id", id).single(): <<row>>, or <<>> with an error when the
\* query fails or does not find exactly one row.
single(rows, id, fails) ==
  LET WithId(r) == r.discord_id = id
      found == SelectSeq(rows, WithId)
  IN IF fails \/ Len(found) # 1 THEN <<>> ELSE found

\* The points of the row of id in rows; <<>> when there is no such row.
PointsOf(rows, id) ==
  LET WithId(r) == r.discord_id = id
      found == SelectSeq(rows, WithId)
  IN IF found = <<>> THEN <<>> ELSE <<found[1].points>>

\* .update({ points }).eq("discord_id", id)
UpdatePoints(rows, id, points) ==
  [i \in DOMAIN rows |->
     IF rows[i].discord_id = id THEN [rows[i] EXCEPT !.points = points] ELSE rows[i]]

\* Variant of lessThan that never holds.
lessThan_Never(x, y) == FALSE

\* currentPoints.lessThan(fineAmount)
lessThan(x, y) == x < y

\* /fine. fails names the store call that returns an error.
Fine ==
  \E invoker \in InvokerRoles, targetUser \in CmdTargets, amount \in Amounts,
     fails \in {"none", "select", "update"} :
    LET call == [NoCmd EXCEPT !.name = "fine", !.invoker = invoker,
                              !.target = targetUser, !.amount = amount]
        userData == single(users, targetUser, storeDown \/ fails = "select")
    IN /\ IF ~hasAdminRole(invoker)
          THEN /\ cmd' = [call EXCEPT !.reply = "denied"]
               /\ UNCHANGED users
          ELSE IF targetUser = NoId \/ Falsy(amount) \/ amount[1] <= 0
          THEN /\ cmd' = [call EXCEPT !.reply = "invalid"]
               /\ UNCHANGED users
          ELSE IF userData = <<>>
          THEN /\ cmd' = [call EXCEPT !.reply = "notfound", !.effects = {"store_read"}]
               /\ UNCHANGED users
          ELSE IF lessThan(userData[1].points, amount[1])
          THEN /\ cmd' = [call EXCEPT !.reply = "insufficient", !.effects = {"store_read"}]
               /\ UNCHANGED users
          ELSE IF fails = "update"
          THEN /\ cmd' = [call EXCEPT !.reply = "error",
                                      !.effects = {"store_read", "store_write"}]
               /\ UNCHANGED users
          ELSE /\ cmd' = [call EXCEPT !.reply = "fined",
                                      !.effects = {"store_read", "store_write"}]
               /\ users' = UpdatePoints(users, targetUser, userData[1].points - amount[1])
       /\ UNCHANGED <<roles, present, grantFails, roleCache, storeDown, ur, msg, aw, lb,
                      WHITELIST_MINIMUM, conc>>

\* /transfer: the sender is the invoking member. The two updates are two
\* store calls; when the second fails the first stays.
Transfer ==
  \E invoker \in InvokerRoles, userId \in CmdUserIds, targetUser \in CmdTargets,
     amount \in Amounts,
     fails \in {"none", "sender", "receiver", "senderUpdate", "receiverUpdate"} :
    LET call == [NoCmd EXCEPT !.name = "transfer", !.invoker = invoker,
                              !.user = userId,
                              !.target = targetUser, !.amount = amount]
        senderData == single(users, userId, storeDown \/ fails = "sender")
        receiverData == single(users, targetUser, storeDown \/ fails = "receiver")
        debited == UpdatePoints(users, userId, senderData[1].points - amount[1])
    IN /\ IF ~hasAdminRole(invoker)
          THEN /\ cmd' = [call EXCEPT !.reply = "denied"]
               /\ UNCHANGED users
          ELSE IF targetUser = NoId \/ Falsy(amount)
          THEN /\ cmd' = [call EXCEPT !.reply = "invalid"]
               /\ UNCHANGED users
          ELSE IF senderData = <<>>
          THEN /\ cmd' = [call EXCEPT !.reply = "sender_error", !.effects = {"store_read"}]
               /\ UNCHANGED users
          ELSE IF senderData[1].points < amount[1]
          THEN /\ cmd' = [call EXCEPT !.reply = "insufficient", !.effects = {"store_read"}]
               /\ UNCHANGED users
          ELSE IF receiverData = <<>>
          THEN /\ cmd' = [call EXCEPT !.reply = "receiver_error",
                                      !.effects = {"store_read"}]
               /\ UNCHANGED users
          ELSE IF fails = "senderUpdate"
          THEN /\ cmd' = [call EXCEPT !.reply = "sender_update_error",
                                      !.effects = {"store_read", "store_write"}]
               /\ UNCHANGED users
          ELSE IF fails = "receiverUpdate"
          THEN /\ cmd' = [call EXCEPT !.reply = "receiver_update_error",
                                      !.effects = {"store_read", "store_write"}]
               /\ users' = debited
          ELSE /\ cmd' = [call EXCEPT !.reply = "transferred",
                                      !.effects = {"store_read", "store_write"}]
               /\ users' = UpdatePoints(debited, targetUser,
                                        receiverData[1].points + amount[1])
       /\ UNCHANGED <<roles, present, grantFails, roleCache, storeDown, ur, msg, aw, lb,
                      WHITELIST_MINIMUM, conc>>

\* /updatewhitelistminimum
UpdateWhitelistMinimum ==
  \E invoker \in InvokerRoles, newMinimum \in Amounts :
    LET call == [NoCmd EXCEPT !.name = "updatewhitelistminimum", !.invoker = invoker,
                              !.amount = newMinimum]
    IN /\ IF ~hasAdminRole(invoker)
          THEN /\ cmd' = [call EXCEPT !.reply = "denied"]
               /\ UNCHANGED WHITELIST_MINIMUM
          ELSE IF Falsy(newMinimum) \/ newMinimum[1] <= 0
          THEN /\ cmd' = [call EXCEPT !.reply = "invalid"]
               /\ UNCHANGED WHITELIST_MINIMUM
          ELSE /\ cmd' = [call EXCEPT !.reply = "updated", !.effects = {"config_write"}]
               /\ WHITELIST_MINIMUM' = newMinimum[1]
       /\ UNCHANGED <<world, roles, ur, msg, aw, lb, conc>>

\* The team role /purgezerobalance takes from a member of a team.
TeamRole(team) == IF team = "bullas" THEN BULL_ROLE_ID ELSE BEAR_ROLE_ID

\* Variant of zeroBalanceUsers without the filter on points.
zeroBalanceUsers_AnyBalance(rows) ==
  LET OfTeam(r) == r.team \in {"bullas", "beras"} IN SelectSeq(rows, OfTeam)

\* .eq("points", 0).or("team.eq.bullas,team.eq.beras")
zeroBalanceUsers(rows) ==
  LET Zero(r) == r.points = 0 /\ r.team \in {"bullas", "beras"} IN SelectSeq(rows, Zero)

\* /purgezerobalance: a member whose fetch or whose roles.remove rejects is
\* skipped by the catch of the loop body, before removedCount++.
PurgeZeroBalance ==
  \E invoker \in InvokerRoles, failing \in SUBSET present :
    LET call == [NoCmd EXCEPT !.name = "purgezerobalance", !.invoker = invoker,
                              !.failing = IF hasAdminRole(invoker) /\ ~storeDown
                                          THEN failing ELSE {}]
        zero == zeroBalanceUsers(users)
        Loses(id) ==
          {TeamRole(zero[i].team) : i \in {j \in 1..Len(zero) : zero[j].discord_id = id}}
        hit == {id \in present \ failing : Loses(id) \cap roles[id] # {}}
    IN /\ IF ~hasAdminRole(invoker)
          THEN /\ cmd' = [call EXCEPT !.reply = "denied"]
               /\ UNCHANGED roles
          ELSE IF storeDown
          THEN /\ cmd' = [call EXCEPT !.reply = "error", !.effects = {"store_read"}]
               /\ UNCHANGED roles
          ELSE /\ cmd' = [call EXCEPT
                            !.reply = "purged", !.removed = Cardinality(hit),
                            !.effects = {"store_read"}
                               \cup (IF zero # <<>> THEN {"member_fetch"} ELSE {})
                               \cup (IF hit # {} THEN {"role_mutation"} ELSE {})]
               /\ roles' = [id \in DOMAIN roles |->
                              IF id \in hit THEN roles[id] \ Loses(id) ELSE roles[id]]
       /\ UNCHANGED <<world, ur, msg, aw, lb, WHITELIST_MINIMUM, conc>>

\* index.ts:154 fetches the members in batches of 50 and index.ts:931-932 ask
\* for the top 2000 and the top 700; the model keeps "several batches" and
\* "fewer rows than the team has" at the size of its tables.
fetchBatch == 2
topWinning == 2
topLosing == 1

\* .select("discord_id, address, points")
Player(r) == [discord_id |-> r.discord_id, address |-> r.address, points |-> r.points]

\* .limit(n)
limit(rows, n) == SubSeq(rows, 1, Min(n, Len(rows)))

\* getTopPlayers(team, n): the results the query can have.
getTopPlayers(rows, team, n) ==
  LET OfTeam(r) == r.team = team
  IN {limit([i \in DOMAIN o |-> Player(o[i])], n)
        : o \in OrderByPointsDesc(SelectSeq(rows, OfTeam))}

RECURSIVE InsertByPoints(_, _)
InsertByPoints(row, sorted) ==
  IF sorted = <<>> THEN <<row>>
  ELSE IF row.points >= Head(sorted).points
       THEN <<row>> \o sorted
       ELSE <<Head(sorted)>> \o InsertByPoints(row, Tail(sorted))

\* allPlayers.sort((a, b) => b.points - a.points): a stable sort.
RECURSIVE SortByPointsDesc(_)
SortByPointsDesc(rows) ==
  IF rows = <<>> THEN <<>>
  ELSE InsertByPoints(Head(rows), SortByPointsDesc(Tail(rows)))

\* Lines 149-161: the ids of membersMap. failing: the batches whose fetch
\* rejects, counted from 0; a fetch returns the members the guild has.
MembersMap(data, failing) ==
  LET HasId(r) == r.discord_id # NoId
      memberIds == SelectSeq(data, HasId)
  IN {memberIds[j].discord_id :
        j \in {k \in 1..Len(memberIds) :
                 /\ ((k - 1) \div fetchBatch) \notin failing
                 /\ memberIds[k].discord_id \in present}}

\* Variant of RoleFlag that looks at the base role alone.
RoleFlag_BaseOnly(membersMap, id, cat) ==
  IF id \in membersMap /\ BaseRole(cat) \in roles[id] THEN "Y" ELSE "N"

\* Lines 165-179: hasWL, hasML, hasFreeMint.
RoleFlag(membersMap, id, cat) ==
  IF id \in membersMap
     /\ (BaseRole(cat) \in roles[id] \/ WinnerRole(cat) \in roles[id])
  THEN "Y" ELSE "N"

CsvHeader(includeDiscordId) ==
  (IF includeDiscordId THEN <<"discord_id", ",">> ELSE <<>>)
    \o <<"address", ",", "points", ",", "wl_role", ",", "ml_role", ",",
         "free_mint_role", "\n">>

\* Lines 181-183: the line of one row.
CsvRow(user, includeDiscordId, membersMap) ==
  (IF includeDiscordId THEN <<user.discord_id, ",">> ELSE <<>>)
    \o <<user.address, ",">> \o IntToString(user.points)
    \o <<",", RoleFlag(membersMap, user.discord_id, "whitelist"),
         ",", RoleFlag(membersMap, user.discord_id, "moolalist"),
         ",", RoleFlag(membersMap, user.discord_id, "freemint")>>

\* rows.join(sep)
RECURSIVE join(_, _)
join(rows, sep) ==
  IF rows = <<>> THEN <<>>
  ELSE IF Len(rows) = 1 THEN rows[1]
  ELSE rows[1] \o <<sep>> \o join(Tail(rows), sep)

createCSV(data, includeDiscordId, membersMap) ==
  CsvHeader(includeDiscordId)
    \o join([i \in DOMAIN data |-> CsvRow(data[i], includeDiscordId, membersMap)], "\n")

\* A file of the reply, with what createCSV was called with.
CsvFile(data, includeDiscordId, failing) ==
  [data |-> data, includeDiscordId |-> includeDiscordId,
   membersMap |-> MembersMap(data, failing),
   content |-> createCSV(data, includeDiscordId, MembersMap(data, failing))]

\* Batches of a createCSV call that can fail.
FailingBatches == BoundedSubsets(0..2, 1)

\* /snapshot: getTeamPoints, four getTopPlayers queries, createCSV with its
\* member fetches, then the three files as the reply. The errors of
\* getTeamPoints are not looked at; getTopPlayers throws.
Snapshot ==
  \E invoker \in InvokerRoles :
    LET call == [NoCmd EXCEPT !.name = "snapshot", !.invoker = invoker]
        teamPoints == getTeamPoints(users, storeDown)
        winningTeam == IF teamPoints.bullas > teamPoints.beras THEN "bullas" ELSE "beras"
        losingTeam == IF winningTeam = "bullas" THEN "beras" ELSE "bullas"
    IN /\ IF ~hasAdminRole(invoker)
          THEN cmd' = [call EXCEPT !.reply = "denied"]
          ELSE IF storeDown
          THEN cmd' = [call EXCEPT !.reply = "error", !.effects = {"store_read"}]
          ELSE \E winningTopPlayers \in getTopPlayers(users, winningTeam, topWinning),
                  losingTopPlayers \in getTopPlayers(users, losingTeam, topLosing),
                  allWinning \in getTopPlayers(users, winningTeam, Len(users)),
                  allLosing \in getTopPlayers(users, losingTeam, Len(users)),
                  f1 \in FailingBatches, f2 \in FailingBatches, f3 \in FailingBatches :
                 LET allPlayers == SortByPointsDesc(allWinning \o allLosing)
                     HasId(r) == r.discord_id # NoId
                 IN cmd' = [call EXCEPT
                              !.reply = "files",
                              !.files = << CsvFile(winningTopPlayers, FALSE, f1),
                                           CsvFile(losingTopPlayers, FALSE, f2),
                                           CsvFile(allPlayers, TRUE, f3) >>,
                              !.effects = {"store_read"}
                                 \cup (IF SelectSeq(allPlayers, HasId) # <<>>
                                       THEN {"member_fetch"} ELSE {})]
       /\ UNCHANGED <<world, roles, ur, msg, aw, lb, WHITELIST_MINIMUM, conc>>

\* Tables /snapshot is asked to export: members and former members, a row
\* without discord_id, a row without address, ties on points.
SnapRows(pa, pb) ==
  << Row("a", "0xA", pa, "bullas"),
     Row("z", "0xZ", 1, "bullas"),
     Row("b", "0xB", pb, "beras"),
     Row(NoId, "0xN", 1, "beras"),
     Row("y", NoAddress, 0, "bullas") >>

InitSnap ==
  /\ \E pa \in 0..MaxPoints, pb \in 0..MaxPoints, n \in 0..5 :
       users = SubSeq(SnapRows(pa, pb), 1, n)
  /\ present = GuildIds
  /\ \E seeded \in RoleSeeds :
       roles = [id \in AllIds |-> {r \in ThresholdRoleIds : <<id, r>> \in seeded}]
  /\ grantFails = {}
  /\ roleCache = AllRoleIds
  /\ storeDown \in BOOLEAN
  /\ ur = IdleRun
  /\ msg = NoMsg
  /\ aw = IdleAw
  /\ lb = NoBoard
  /\ cmd = NoCmd
  /\ WHITELIST_MINIMUM = 100
  /\ runs = NoRuns
  /\ ops = NoOps
  /\ wk = NoWk

NextSnap == cmd.name = "none" /\ Snapshot

SpecSnap == InitSnap /\ [][NextSnap]_vars

\* Every admin-only entry point. A behaviour follows one interaction to its
\* end: the /updateroles flow, /alreadywanked, or one of the other admin
\* commands; the balances and roles a later interaction starts from are
\* varied in Init.
InitAdmin ==
  /\ \E pa \in 0..MaxPoints, pb \in 0..MaxPoints :
       users = << Row("a", "0xA", pa, "bullas"),
                  Row("b", "0xB", pb, "beras"),
                  Row("c", "0xC", 0, "bullas") >>
  /\ present = GuildIds
  /\ \E teamRoles \in {{BULL_ROLE_ID}, {BEAR_ROLE_ID}, {BULL_ROLE_ID, BEAR_ROLE_ID}} :
       roles = [id \in AllIds \cup AwIds |->
                  IF id = "a" THEN teamRoles
                  ELSE IF id = "b" THEN {BEAR_ROLE_ID, WHITELIST_ROLE_ID} ELSE {}]
  /\ grantFails = {}
  /\ roleCache = AllRoleIds
  /\ storeDown \in BOOLEAN
  /\ ur = IdleRun
  /\ msg = NoMsg
  /\ aw = IdleAw
  /\ lb = NoBoard
  /\ cmd = NoCmd
  /\ WHITELIST_MINIMUM = 100
  /\ runs = NoRuns
  /\ ops = NoOps
  /\ wk = NoWk

\* No other admin command and no /alreadywanked interaction has taken place.
UrTurn == cmd.name = "none" /\ aw.pc = "idle" /\ aw.ephemeral = "none"

\* No other admin command and no /updateroles interaction has taken place.
AwTurn == cmd.name = "none" /\ ur.pc = "idle" /\ msg.kind = "none"

\* No interaction has taken place.
CmdTurn ==
  /\ cmd.name = "none"
  /\ ur.pc = "idle" /\ msg.kind = "none"
  /\ aw.pc = "idle" /\ aw.ephemeral = "none"

NextAdmin ==
  \/ UrTurn /\ UpdateRolesCommand
  \/ UrTurn /\ UpdateRolesStep
  \/ UrTurn /\ UpdateRolesReturn
  \/ UrTurn /\ CancelPress
  \/ UrTurn /\ ConfirmPress
  \/ AwTurn /\ AlreadyWankedCommand
  \/ AwTurn /\ QueryPage
  \/ AwTurn /\ ProcessUser
  \/ AwTurn /\ ReportProgress
  \/ AwTurn /\ FinalReport
  \/ CmdTurn /\ Fine
  \/ CmdTurn /\ Transfer
  \/ CmdTurn /\ UpdateWhitelistMinimum
  \/ CmdTurn /\ PurgeZeroBalance
  \/ CmdTurn /\ Snapshot

SpecAdmin == InitAdmin /\ [][NextAdmin]_vars

(***************************************************************************)
(* The /updateroles flow while the users table changes                     *)
(***************************************************************************)
\* The integer options of /updateroles have no minimum (index.ts:354-370).
SignedThresholds == {0 - 1} \cup 1..MaxThreshold

UpdateRolesSigned == UpdateRolesWith(SignedThresholds)

\* Between the simulation and the press of a button the points of a row are
\* written: by /fine or /transfer of another admin, or by the game that
\* shares the store.
PointsChange ==
  /\ msg.kind = "simulation"
  /\ \E id \in GuildIds, points \in 0..MaxPoints :
       /\ PointsOf(users, id) # <<points>>
       /\ users' = UpdatePoints(users, id, points)
  /\ UNCHANGED <<present, grantFails, roleCache, storeDown, roles, ur, msg, aw, others>>

NextDrift ==
  \/ UpdateRolesSigned
  \/ UpdateRolesStep
  \/ UpdateRolesReturn
  \/ CancelPress
  \/ ConfirmPress
  \/ PointsChange

SpecDrift == InitAdmin /\ [][NextDrift]_vars

(***************************************************************************)
(* Two confirmed updateRoles calls in progress at the same time: the       *)
(* confirm button pressed twice, src/index.ts:1170-1208 and 254-309        *)
(***************************************************************************)
CatIndex(cat) == CHOOSE k \in 1..3 : Categories[k] = cat

\* Lines 259-296 from category block `from` on, for the player of c with the
\* role cache rs: the blocks run without an await until one awaits
\* member.roles.add; after the last block the loop goes on to the next
\* player.
ContinueBody(c, rs, from) ==
  LET player == c.run.players[c.run.idx]
      Meets(k) == MeetsThreshold(player.points, c.run.thr[Categories[k]])
      pending == {k \in from..3 : Meets(k) /\ ~HasCategoryRole(rs, Categories[k])}
      stop == IF pending = {} THEN 4 ELSE CHOOSE k \in pending : \A j \in pending : k <= j
      log == [cat \in CategorySet |->
                IF CatIndex(cat) \in from..(stop - 1) /\ Meets(CatIndex(cat))
                THEN [c.run.log[cat] EXCEPT !.existing = @ + 1]
                ELSE c.run.log[cat]]
  IN IF stop = 4
     THEN [c EXCEPT !.run.log = log, !.run.idx = @ + 1, !.run.pc = LoopPc(c.run, FALSE),
                    !.cat = 1, !.adding = FALSE]
     ELSE [c EXCEPT !.run.log = log, !.cat = stop, !.adding = TRUE]

\* Lines 298-306: the body threw, the loop goes on to the next player.
NextPlayer(c) ==
  [c EXCEPT !.run.idx = @ + 1, !.run.pc = LoopPc(c.run, TRUE), !.cat = 1, !.adding = FALSE]

\* Lines 1170-1195: a press of the confirm button starts a call of its own.
ConfirmedPress(h) ==
  \E invoker \in InvokerRoles :
    /\ runs.customId # <<>>
    /\ runs.of[h].run.pc = "idle"
    /\ IF ~hasAdminRole(invoker)
       THEN /\ msg' = [msg EXCEPT !.ephemeral = "denied", !.invoker = invoker]
            /\ UNCHANGED runs
       ELSE LET pieces == split(runs.customId, "_")
                team == PieceToWord(pieces[3])
                run == updateRolesStart("confirm_update", invoker, team, parseInt(pieces[4]),
                                        parseInt(pieces[5]), parseInt(pieces[6]), FALSE)
            IN /\ msg' = [msg EXCEPT !.kind = "executing", !.customId = <<>>,
                                     !.log = EmptyLog, !.ephemeral = "none",
                                     !.invoker = invoker]
               /\ runs' = [runs EXCEPT
                             !.of[h] = [IdleConfirmed EXCEPT !.run = run],
                             !.overlapped = @ \/ \E g \in Handlers \ {h} :
                                                   runs.of[g].run.pc = "loop"]
    /\ UNCHANGED <<world, roles, ur, aw, lb, cmd, WHITELIST_MINIMUM, ops, wk>>

\* Lines 255-258: guild.members.fetch resolves or rejects, and the body runs
\* to its next await. (A row without discord_id is skipped in a step of its
\* own.)
ConfirmedFetch(h) ==
  LET c == runs.of[h]
      id == c.run.players[c.run.idx].discord_id
  IN /\ c.run.pc = "loop" /\ ~c.adding
     /\ runs' = [runs EXCEPT !.of[h] =
                   IF id = NoId \/ id \notin present THEN NextPlayer(c)
                   ELSE ContinueBody(c, roles[id], 1)]
     /\ UNCHANGED <<world, roles, ur, msg, aw, lb, cmd, WHITELIST_MINIMUM, ops, wk>>

\* Lines 263, 275, 290: member.roles.add resolves or rejects; the counter is
\* raised and the body runs to its next await.
ConfirmedAdd(h) ==
  LET c == runs.of[h]
      id == c.run.players[c.run.idx].discord_id
      cat == Categories[c.cat]
      rs == rolesAdd(roles[id], BaseRole(cat))
  IN /\ c.run.pc = "loop" /\ c.adding
     /\ IF <<id, BaseRole(cat)>> \in grantFails
        THEN /\ runs' = [runs EXCEPT !.of[h] = NextPlayer(c)]
             /\ UNCHANGED roles
        ELSE /\ roles' = [roles EXCEPT ![id] = rs]
             /\ runs' = [runs EXCEPT !.of[h] =
                           ContinueBody([c EXCEPT !.run.log[cat].added = @ + 1], rs,
                                        c.cat + 1)]
     /\ UNCHANGED <<world, ur, msg, aw, lb, cmd, WHITELIST_MINIMUM, ops, wk>>

\* Lines 1197-1203: the call returns its log and the handler edits the reply.
ConfirmedReturn(h) ==
  /\ runs.of[h].run.pc = "return"
  /\ runs' = [runs EXCEPT !.of[h].run.pc = "done"]
  /\ msg' = [msg EXCEPT !.kind = "completed", !.log = runs.of[h].run.log]
  /\ UNCHANGED <<world, roles, ur, aw, lb, cmd, WHITELIST_MINIMUM, ops, wk>>

\* The reply shows a simulation; no grant is rejected and the store answers.
InitRuns ==
  /\ \E pa \in 0..MaxPoints, pb \in 0..MaxPoints :
       users = << Row("a", "0xA", pa, "bullas"),
                  Row("z", "0xZ", MaxPoints, "bullas"),
                  Row(NoId, "0xN", MaxPoints, "bullas"),
                  Row("b", "0xB", pb, "bullas"),
                  Row("y", "0xY", 2 * MaxPoints + 1, "beras") >>
  /\ present = GuildIds
  /\ \E seeded \in RoleSeeds :
       roles = [id \in AllIds |->
                  {r \in ThresholdRoleIds : <<id, r>> \in seeded}
                    \cup (IF id = "a" THEN {BULL_ROLE_ID} ELSE {})]
  /\ grantFails = {}
  /\ roleCache = AllRoleIds
  /\ storeDown = FALSE
  /\ ur = IdleRun
  /\ \E team \in {"winning", "losing"}, wlThreshold \in 1..MaxThreshold,
        mlThreshold \in 1..MaxThreshold, freemintThreshold \in 1..MaxThreshold :
       LET customId == ConfirmCustomId(team, wlThreshold, mlThreshold, freemintThreshold)
       IN /\ msg = [NoMsg EXCEPT !.kind = "simulation", !.customId = customId]
          /\ runs = [NoRuns EXCEPT !.roles0 = roles, !.customId = customId]
  /\ aw = IdleAw
  /\ lb = NoBoard
  /\ cmd = NoCmd
  /\ WHITELIST_MINIMUM = 100
  /\ ops = NoOps
  /\ wk = NoWk

NextRuns ==
  \/ \E h \in Handlers : ConfirmedPress(h)
  \/ \E h \in Handlers : ConfirmedFetch(h)
  \/ \E h \in Handlers : ConfirmedAdd(h)
  \/ \E h \in Handlers : ConfirmedReturn(h)

SpecRuns == InitRuns /\ [][NextRuns]_vars

(***************************************************************************)
(* /fine and /transfer with their awaits: two handlers in progress at the  *)
(* same time, src/index.ts:707-791 and 959-1014                            *)
(***************************************************************************)
\* A handler that replied without a write.
Rejected(name, reply) == [IdleOp EXCEPT !.pc = "done", !.name = name, !.reply = reply]

\* Lines 960-974: the permission check and the validation of /fine.
FineCommand(h) ==
  \E invoker \in InvokerRoles, targetUser \in CmdTargets, amount \in Amounts :
    /\ ops.of[h].pc = "idle"
    /\ ops' = [ops EXCEPT !.of[h] =
                 IF ~hasAdminRole(invoker) THEN Rejected("fine", "denied")
                 ELSE IF targetUser = NoId \/ Falsy(amount) \/ amount[1] <= 0
                 THEN Rejected("fine", "invalid")
                 ELSE [IdleOp EXCEPT !.pc = "select", !.name = "fine",
                                     !.target = targetUser, !.amount = amount]]
    /\ UNCHANGED <<world, roles, ur, msg, aw, lb, cmd, WHITELIST_MINIMUM, runs, wk>>

\* Lines 977-994: the read of the row and the floor check.
FineSelect(h) ==
  LET op == ops.of[h]
      userData == single(users, op.target, storeDown)
  IN /\ op.pc = "select" /\ op.name = "fine"
     /\ ops' = [ops EXCEPT !.of[h] =
                  IF userData = <<>> THEN Rejected("fine", "notfound")
                  ELSE IF lessThan(userData[1].points, op.amount[1])
                  THEN Rejected("fine", "insufficient")
                  ELSE [op EXCEPT !.pc = "update", !.senderPoints = userData[1].points]]
     /\ UNCHANGED <<world, roles, ur, msg, aw, lb, cmd, WHITELIST_MINIMUM, runs, wk>>

\* Lines 996-1009: the write of currentPoints.minus(fineAmount) and the reply.
FineUpdate(h) ==
  LET op == ops.of[h]
  IN /\ op.pc = "update" /\ op.name = "fine"
     /\ users' = UpdatePoints(users, op.target, op.senderPoints - op.amount[1])
     /\ ops' = [ops EXCEPT !.of[h] = [op EXCEPT !.pc = "done", !.reply = "fined"]]
     /\ UNCHANGED <<present, grantFails, roleCache, storeDown, roles, ur, msg, aw, lb, cmd,
                    WHITELIST_MINIMUM, runs, wk>>

\* Lines 708-723: the permission check and the validation of /transfer.
TransferCommand(h) ==
  \E invoker \in InvokerRoles, userId \in CmdUserIds, targetUser \in CmdTargets,
     amount \in Amounts :
    /\ ops.of[h].pc = "idle"
    /\ ops' = [ops EXCEPT !.of[h] =
                 IF ~hasAdminRole(invoker) THEN Rejected("transfer", "denied")
                 ELSE IF targetUser = NoId \/ Falsy(amount)
                 THEN Rejected("transfer", "invalid")
                 ELSE [IdleOp EXCEPT !.pc = "sender", !.name = "transfer",
                                     !.user = userId, !.target = targetUser,
                                     !.amount = amount]]
    /\ UNCHANGED <<world, roles, ur, msg, aw, lb, cmd, WHITELIST_MINIMUM, runs, wk>>

\* Lines 725-740: the read of the sender's row and the balance check.
TransferSelectSender(h) ==
  LET op == ops.of[h]
      senderData == single(users, op.user, storeDown)
  IN /\ op.pc = "sender"
     /\ ops' = [ops EXCEPT !.of[h] =
                  IF senderData = <<>> THEN Rejected("transfer", "sender_error")
                  ELSE IF senderData[1].points < op.amount[1]
                  THEN Rejected("transfer", "insufficient")
                  ELSE [op EXCEPT !.pc = "receiver",
                                  !.senderPoints = senderData[1].points]]
     /\ UNCHANGED <<world, roles, ur, msg, aw, lb, cmd, WHITELIST_MINIMUM, runs, wk>>

\* Lines 742-757: the read of the receiver's row.
TransferSelectReceiver(h) ==
  LET op == ops.of[h]
      receiverData == single(users, op.target, storeDown)
  IN /\ op.pc = "receiver"
     /\ ops' = [ops EXCEPT !.of[h] =
                  IF receiverData = <<>> THEN Rejected("transfer", "receiver_error")
                  ELSE [op EXCEPT !.pc = "senderUpdate",
                                  !.receiverPoints = receiverData[1].points]]
     /\ UNCHANGED <<world, roles, ur, msg, aw, lb, cmd, WHITELIST_MINIMUM, runs, wk>>

\* Lines 765-774: the write of senderPoints.minus(transferAmount).
TransferUpdateSender(h) ==
  LET op == ops.of[h]
  IN /\ op.pc = "senderUpdate"
     /\ users' = UpdatePoints(users, op.user, op.senderPoints - op.amount[1])
     /\ ops' = [ops EXCEPT !.of[h] = [op EXCEPT !.pc = "receiverUpdate"]]
     /\ UNCHANGED <<present, grantFails, roleCache, storeDown, roles, ur, msg, aw, lb, cmd,
                    WHITELIST_MINIMUM, runs, wk>>

\* Lines 776-790: the write of receiverPoints.plus(transferAmount) and the
\* reply.
TransferUpdateReceiver(h) ==
  LET op == ops.of[h]
  IN /\ op.pc = "receiverUpdate"
     /\ users' = UpdatePoints(users, op.target, op.receiverPoints + op.amount[1])
     /\ ops' = [ops EXCEPT !.of[h] = [op EXCEPT !.pc = "done", !.reply = "transferred"]]
     /\ UNCHANGED <<present, grantFails, roleCache, storeDown, roles, ur, msg, aw, lb, cmd,
                    WHITELIST_MINIMUM, runs, wk>>

InitPoints ==
  /\ \E pa \in 0..MaxPoints, pb \in 0..MaxPoints :
       users = << Row("a", "0xA", pa, "bullas"), Row("b", "0xB", pb, "beras") >>
  /\ present = GuildIds
  /\ roles = [id \in AllIds |-> {}]
  /\ grantFails = {}
  /\ roleCache = AllRoleIds
  /\ storeDown \in BOOLEAN
  /\ ur = IdleRun
  /\ msg = NoMsg
  /\ aw = IdleAw
  /\ lb = NoBoard
  /\ cmd = NoCmd
  /\ WHITELIST_MINIMUM = 100
  /\ runs = NoRuns
  /\ ops = [NoOps EXCEPT !.start = users]
  /\ wk = NoWk

NextPoints ==
  \/ \E h \in Handlers : FineCommand(h)
  \/ \E h \in Handlers : FineSelect(h)
  \/ \E h \in Handlers : FineUpdate(h)
  \/ \E h \in Handlers : TransferCommand(h)
  \/ \E h \in Handlers : TransferSelectSender(h)
  \/ \E h \in Handlers : TransferSelectReceiver(h)
  \/ \E h \in Handlers : TransferUpdateSender(h)
  \/ \E h \in Handlers : TransferUpdateReceiver(h)

SpecPoints == InitPoints /\ [][NextPoints]_vars

(***************************************************************************)
(* /wankme and its polling timer, src/unnamed/part_000:447-546, and the    *)
(* member-join handler, part_000:847-853 and src/index.ts:1321-1327        *)
(***************************************************************************)
\* part_000:541-545 clears the interval after 300000 ms and part_000:540 sets
\* the interval to 5000 ms: the interval can fire 60 times. The model keeps
\* "several ticks per lifetime".
lifetimeTicks == 3

\* Variant of rolesRemove that takes every role but the given one.
rolesRemove_Others(rs, role) == rs \cap {role}

\* member.roles.remove(role)
rolesRemove(rs, role) == rs \ {role}

\* part_000:509-535: the completion step of the polling callback, on the
\* member's roles rs. Returns the roles and whether the follow-up was sent.
Completion(id, rs) ==
  LET newRole == NEW_WANKME_ROLE_ID \in roleCache
      mootardRole == MOOTARD_ROLE_ID \in roleCache
      adds == newRole /\ NEW_WANKME_ROLE_ID \notin rs
      added == IF adds THEN rolesAdd(rs, NEW_WANKME_ROLE_ID) ELSE rs
      removed == IF mootardRole /\ MOOTARD_ROLE_ID \in added
                 THEN rolesRemove(added, MOOTARD_ROLE_ID) ELSE added
  IN IF adds /\ <<id, NEW_WANKME_ROLE_ID>> \in grantFails
     THEN [rs |-> rs, followUp |-> FALSE]
     ELSE [rs |-> removed, followUp |-> TRUE]

\* part_000:447-499: the handler up to the start of the timers.
WankmeCommand ==
  \E userId \in GuildIds, tokenFails \in BOOLEAN :
    LET userData == single(users, userId, storeDown)
        restores == /\ NEW_WANKME_ROLE_ID \in roleCache
                    /\ NEW_WANKME_ROLE_ID \notin roles[userId]
                    /\ <<userId, NEW_WANKME_ROLE_ID>> \notin grantFails
    IN /\ wk.pc = "idle"
       /\ storeDown => tokenFails
       /\ IF userData # <<>>
          THEN /\ roles' = IF restores
                           THEN [roles EXCEPT ![userId] = rolesAdd(@, NEW_WANKME_ROLE_ID)]
                           ELSE roles
               /\ wk' = [wk EXCEPT !.pc = "done", !.user = userId,
                                   !.reply = IF restores THEN "restored" ELSE "linked"]
          ELSE /\ wk' = IF tokenFails
                        THEN [wk EXCEPT !.pc = "done", !.user = userId,
                                        !.reply = "token_error"]
                        ELSE [wk EXCEPT !.pc = "polling", !.user = userId,
                                        !.reply = "link", !.timer = "running"]
               /\ UNCHANGED roles
       /\ UNCHANGED <<world, ur, msg, aw, lb, cmd, WHITELIST_MINIMUM, runs, ops>>

\* part_000:501-506: the interval fires and the callback starts its lookup.
Tick ==
  /\ wk.timer = "running"
  /\ wk.ticks < lifetimeTicks
  /\ wk' = [wk EXCEPT !.ticks = @ + 1, !.lookups = @ + 1]
  /\ UNCHANGED <<world, roles, ur, msg, aw, lb, cmd, WHITELIST_MINIMUM, runs, ops>>

\* part_000:507-539: the lookup of a callback returns; with a row the
\* callback clears the interval and runs the completion step.
LookupReturns ==
  LET checkUser == single(users, wk.user, storeDown)
      done == Completion(wk.user, roles[wk.user])
  IN /\ wk.lookups > 0
     /\ IF checkUser # <<>>
        THEN /\ roles' = [roles EXCEPT ![wk.user] = done.rs]
             /\ wk' = [wk EXCEPT !.lookups = @ - 1, !.timer = "cleared",
                                 !.completions = @ + 1,
                                 !.followUps = IF done.followUp THEN @ + 1 ELSE @]
        ELSE /\ wk' = [wk EXCEPT !.lookups = @ - 1]
             /\ UNCHANGED roles
     /\ UNCHANGED <<world, ur, msg, aw, lb, cmd, WHITELIST_MINIMUM, runs, ops>>

\* part_000:541-545: the timeout fires at the end of the lifetime.
Timeout ==
  /\ wk.pc = "polling"
  /\ ~wk.expired
  /\ wk.timer = "cleared" \/ wk.ticks = lifetimeTicks
  /\ wk' = [wk EXCEPT !.timer = "cleared", !.expired = TRUE]
  /\ UNCHANGED <<world, roles, ur, msg, aw, lb, cmd, WHITELIST_MINIMUM, runs, ops>>

\* The row the lookup of part_000:502-506 waits for: the user follows the
\* link and the game creates the row.
Verify ==
  \E team \in {"bullas", "beras"} :
    /\ wk.pc = "polling"
    /\ ~storeDown
    /\ single(users, wk.user, FALSE) = <<>>
    /\ users' = Append(users, Row(wk.user, "0xV", 0, team))
    /\ UNCHANGED <<present, grantFails, roleCache, storeDown, roles, ur, msg, aw, lb, cmd,
                   WHITELIST_MINIMUM, conc>>

\* part_000:847-853 and index.ts:1321-1327: a member joins and gets the
\* Mootard role. (A member that joins holds no role.)
GuildMemberAdd ==
  \E id \in GuildIds :
    /\ roles[id] = {}
    /\ MOOTARD_ROLE_ID \in roleCache
    /\ <<id, MOOTARD_ROLE_ID>> \notin grantFails
    /\ roles' = [roles EXCEPT ![id] = rolesAdd(@, MOOTARD_ROLE_ID)]
    /\ UNCHANGED <<world, ur, msg, aw, lb, cmd, WHITELIST_MINIMUM, conc>>

\* Member b has a row, member a has none.
InitWankme ==
  /\ \E pb \in 0..MaxPoints : users = << Row("b", "0xB", pb, "beras") >>
  /\ present = GuildIds
  /\ \E ra \in SUBSET {MOOTARD_ROLE_ID, NEW_WANKME_ROLE_ID},
        rb \in SUBSET {BEAR_ROLE_ID, NEW_WANKME_ROLE_ID} :
       roles = [id \in AllIds |-> IF id = "a" THEN ra ELSE IF id = "b" THEN rb ELSE {}]
  /\ grantFails \in BoundedSubsets(GuildIds \X {NEW_WANKME_ROLE_ID}, MaxFailures)
  /\ roleCache = AllRoleIds
  /\ storeDown \in BOOLEAN
  /\ ur = IdleRun
  /\ msg = NoMsg
  /\ aw = IdleAw
  /\ lb = NoBoard
  /\ cmd = NoCmd
  /\ WHITELIST_MINIMUM = 100
  /\ runs = NoRuns
  /\ ops = NoOps
  /\ wk = NoWk

NextWankme ==
  \/ WankmeCommand
  \/ Tick
  \/ LookupReturns
  \/ Timeout
  \/ Verify
  \/ GuildMemberAdd

SpecWankme == InitWankme /\ [][NextWankme]_vars

(***************************************************************************)
(* Every operation of the two revisions                                    *)
(***************************************************************************)
\* Member a has no row and holds the Mootard role, member b has a row; both
\* may hold flag roles, and b may be about to join.
InitAll ==
  /\ \E pb \in 0..MaxPoints :
       users = << Row("b", "0xB", pb, "beras"), Row("c", "0xC", 0, "bullas") >>
  /\ present = GuildIds
  /\ \E flags \in {{}, {WHITELIST_ROLE_ID, ML_WINNER_ROLE_ID, NEW_WANKME_ROLE_ID},
                    {MOOLALIST_ROLE_ID, FREE_MINT_ROLE_ID, WL_WINNER_ROLE_ID,
                     FREE_MINT_WINNER_ROLE_ID}} :
       roles = [id \in AllIds \cup AwIds |->
                  IF id = "a" THEN {MOOTARD_ROLE_ID, BULL_ROLE_ID, BEAR_ROLE_ID} \cup flags
                  ELSE IF id = "b" /\ flags # {} THEN {BEAR_ROLE_ID} \cup flags ELSE {}]
  /\ grantFails = {}
  /\ roleCache = AllRoleIds
  /\ storeDown \in BOOLEAN
  /\ ur = IdleRun
  /\ msg = NoMsg
  /\ aw = IdleAw
  /\ lb = NoBoard
  /\ cmd = NoCmd
  /\ WHITELIST_MINIMUM = 100
  /\ runs = NoRuns
  /\ ops = NoOps
  /\ wk = NoWk

\* No /leaderboard interaction has taken place.
NoBoardYet == lb.kind = "none"

\* The /wankme interaction is over: it replied without a token, or its
\* timers and lookups have ended.
WankmeOver ==
  \/ wk.pc = "done"
  \/ wk.pc = "polling" /\ wk.expired /\ wk.lookups = 0

\* One admin interaction or one /leaderboard per behaviour. The steps of the
\* interactions that change roles (/updateroles and its buttons,
\* /alreadywanked, /purgezerobalance) take place in any order with the
\* member-join events, a /wankme and its polling; the commands that leave
\* the roles alone follow the /wankme.
NextAll ==
  \/ NoBoardYet /\ UrTurn /\ UpdateRolesCommand
  \/ NoBoardYet /\ UrTurn /\ UpdateRolesStep
  \/ NoBoardYet /\ UrTurn /\ UpdateRolesReturn
  \/ NoBoardYet /\ UrTurn /\ CancelPress
  \/ NoBoardYet /\ UrTurn /\ ConfirmPress
  \/ NoBoardYet /\ AwTurn /\ AlreadyWankedCommand
  \/ NoBoardYet /\ AwTurn /\ QueryPage
  \/ NoBoardYet /\ AwTurn /\ ProcessUser
  \/ NoBoardYet /\ AwTurn /\ ReportProgress
  \/ NoBoardYet /\ AwTurn /\ FinalReport
  \/ WankmeOver /\ NoBoardYet /\ CmdTurn /\ Fine
  \/ WankmeOver /\ NoBoardYet /\ CmdTurn /\ Transfer
  \/ WankmeOver /\ NoBoardYet /\ CmdTurn /\ UpdateWhitelistMinimum
  \/ NoBoardYet /\ CmdTurn /\ PurgeZeroBalance
  \/ WankmeOver /\ NoBoardYet /\ CmdTurn /\ Snapshot
  \/ WankmeOver /\ CmdTurn /\ LeaderboardCommand
  \/ WankmeOver /\ CmdTurn /\ PagePress
  \/ WankmeCommand
  \/ Tick
  \/ LookupReturns
  \/ Timeout
  \/ Verify
  \/ GuildMemberAdd

SpecAll == InitAll /\ [][NextAll]_vars

\* The timers of the runtime fire: an interval that is not cleared fires
\* again, the timeout fires, and a lookup returns.
SpecWankmeFair ==
  SpecWankme /\ WF_vars(Tick) /\ WF_vars(Timeout) /\ WF_vars(LookupReturns)


(***************************************************************************)
(* Properties of the reconciler                                            *)
(***************************************************************************)
\* The player the loop of the run is about to process.
CurrentPlayer == ur.players[ur.idx]

Resolvable(player) == player.discord_id # NoId /\ player.discord_id \in present

\* The classification the specification gives for one resolved member:
\* per category, nothing below the threshold, otherwise "added" when the
\* member holds neither the base role nor the winner variant, "existing"
\* when it holds one of them.
ClassifyCat(entry, points, threshold, holdsBase, holdsWinner) ==
  IF threshold = <<>> \/ points < threshold[1] THEN entry
  ELSE IF ~holdsBase /\ ~holdsWinner
       THEN [entry EXCEPT !.added = @ + 1]
       ELSE [entry EXCEPT !.existing = @ + 1]

Classify(log, player, rs, thr) ==
  [whitelist |-> ClassifyCat(log.whitelist, player.points, thr.whitelist,
                             WHITELIST_ROLE_ID \in rs, WL_WINNER_ROLE_ID \in rs),
   moolalist |-> ClassifyCat(log.moolalist, player.points, thr.moolalist,
                             MOOLALIST_ROLE_ID \in rs, ML_WINNER_ROLE_ID \in rs),
   freemint  |-> ClassifyCat(log.freemint, player.points, thr.freemint,
                             FREE_MINT_ROLE_ID \in rs, FREE_MINT_WINNER_ROLE_ID \in rs)]

\* A grant the gateway rejects is due for this player in a real run.
GrantFailsFor(run, player, rs) ==
  /\ ~run.isSimulation
  /\ \E cat \in CategorySet :
       /\ run.thr[cat] # <<>> /\ player.points >= run.thr[cat][1]
       /\ BaseRole(cat) \notin rs /\ WinnerRole(cat) \notin rs
       /\ <<player.discord_id, BaseRole(cat)>> \in grantFails

RealRunDone == ur.pc = "done" /\ ur.status = "ok" /\ ~ur.isSimulation

\* C1: additive-only reconciliation: no step of the /updateroles flow, in
\* simulation or in a real run, takes a role away from any member; every
\* member's role set only grows, whatever the member's points.
C1_AdditiveOnly ==
  [][\A id \in DOMAIN roles : roles[id] \subseteq roles'[id]]_vars

\* A real run has granted a role, and a member whose points are below the
\* whitelist threshold still holds the whitelist role it held before.
C1_Witness ==
  /\ RealRunDone
  /\ \E c \in CategorySet : ur.log[c].added > 0
  /\ \E i \in 1..Len(ur.players) :
       /\ Resolvable(ur.players[i])
       /\ ur.players[i].points < ur.thr.whitelist[1]
       /\ WHITELIST_ROLE_ID \in roles[ur.players[i].discord_id]
  /\ BULL_ROLE_ID \in roles["a"]

\* C2: dry-run equivalence: the six counters a confirmed (real) run returns
\* equal the six counters the simulation showed for the same snapshot.
C2_DryRunEquivalence ==
  (ur.pc = "done" /\ ur.via = "confirm_update") => ur.log = msg.shown

\* C3: threshold classification: processing a resolved member changes the
\* counters exactly as the classification says: one count per category whose
\* threshold the points reach, "added" when neither the base role nor the
\* winner variant is held, "existing" otherwise.
C3_Classification ==
  [][(ur.pc = "loop" /\ ur' # ur /\ Resolvable(CurrentPlayer))
       => ur'.log = Classify(ur.log, CurrentPlayer,
                             roles[CurrentPlayer.discord_id], ur.thr)]_vars

\* C4: a role appears on a member only when a real run processes that member,
\* the role is the base role of a category whose threshold the member's points
\* reach, and the member held neither that base role nor its winner variant.
C4_WinnerBlocksGrant ==
  [][\A id \in DOMAIN roles : \A r \in roles'[id] \ roles[id] :
        /\ ur.pc = "loop" /\ ~ur.isSimulation
        /\ CurrentPlayer.discord_id = id
        /\ \E cat \in CategorySet :
             /\ r = BaseRole(cat)
             /\ ur.thr[cat] # <<>> /\ CurrentPlayer.points >= ur.thr[cat][1]
             /\ BaseRole(cat) \notin roles[id]
             /\ WinnerRole(cat) \notin roles[id]]_vars

\* A real run has finished; a member whose points reach the whitelist
\* threshold holds the whitelist winner variant and was not given the base
\* role, while the run did grant some other role.
C4_Witness ==
  /\ RealRunDone
  /\ \E c \in CategorySet : ur.log[c].added > 0
  /\ \E i \in 1..Len(ur.players) :
       LET p == ur.players[i] IN
         /\ Resolvable(p)
         /\ p.points >= ur.thr.whitelist[1]
         /\ WL_WINNER_ROLE_ID \in roles[p.discord_id]
         /\ WHITELIST_ROLE_ID \notin roles[p.discord_id]

\* C5: a player whose membership cannot be resolved (no discord_id, or the
\* member fetch fails) changes no counter and no role and does not end the
\* run, and the log has only the six added / existing counters.
C5_UnresolvableSkipped ==
  /\ [](/\ DOMAIN ur.log = CategorySet
        /\ \A c \in CategorySet : DOMAIN ur.log[c] = {"added", "existing"})
  /\ [][(ur.pc = "loop" /\ ur' # ur /\ ~Resolvable(CurrentPlayer))
          => /\ ur'.log = ur.log
             /\ roles' = roles
             /\ msg' = msg
             /\ ur'.status = "ok"]_vars

\* A run has finished whose population holds a row without discord_id and a
\* member that left the guild, both with points that reach every threshold,
\* and a resolvable member was counted.
C5_Witness ==
  /\ ur.pc = "done" /\ ur.status = "ok"
  /\ \E i, j \in 1..Len(ur.players) :
       /\ ur.players[i].discord_id = NoId
       /\ ur.players[j].discord_id \in GoneIds
       /\ \A c \in CategorySet : /\ ur.players[i].points >= ur.thr[c][1]
                                 /\ ur.players[j].points >= ur.thr[c][1]
  /\ \E c \in CategorySet : ur.log[c].added + ur.log[c].existing > 0

\* C6: a failure at one player (member fetch or role grant) does not end the
\* loop: the run goes on to the next player, every player that has no failure
\* of its own is counted by the classification, and the run returns its log
\* only after the last player.
C6_FailureIsolation ==
  /\ []((ur.pc \in {"return", "done"} /\ ur.status = "ok")
          => ur.idx = Len(ur.players) + 1)
  /\ [][(ur.pc = "loop" /\ ur' # ur)
          => /\ ur'.idx = ur.idx + 1
             /\ ur'.status = "ok"
             /\ ur'.pc = IF ur.idx < Len(ur.players) THEN "loop" ELSE "return"
             /\ (Resolvable(CurrentPlayer)
                 /\ ~GrantFailsFor(ur, CurrentPlayer, roles[CurrentPlayer.discord_id]))
                  => ur'.log = Classify(ur.log, CurrentPlayer,
                                        roles[CurrentPlayer.discord_id], ur.thr)]_vars

\* A real run has finished in which the grant for an earlier player failed
\* (that player still lacks a role it qualifies for), a member fetch failed
\* too, and a later player was granted a role.
C6_Witness ==
  /\ RealRunDone
  /\ \E i, j, k \in 1..Len(ur.players) :
       /\ i < k /\ j < k
       /\ Resolvable(ur.players[i])
       /\ GrantFailsFor(ur, ur.players[i], roles[ur.players[i].discord_id])
       /\ ur.players[j].discord_id \in GoneIds
       /\ Resolvable(ur.players[k])
       /\ ur.log.whitelist.added = 1
       /\ ur.players[k].points >= ur.thr.whitelist[1]
       /\ WHITELIST_ROLE_ID \in roles[ur.players[k].discord_id]
       /\ <<ur.players[i].discord_id, WHITELIST_ROLE_ID>> \in grantFails

\* C7: the /updateroles command runs the reconciler in simulation only; roles
\* change only in a run started by a confirm_update press of a member with an
\* admin role; no step changes the users table; cancel_update changes no role
\* and starts no run.
C7_NoMutationBeforeConfirm ==
  /\ [](ur.via = "updateroles" => ur.isSimulation)
  /\ [][roles' # roles
          => /\ ur.via = "confirm_update"
             /\ ~ur.isSimulation
             /\ ur.invoker \cap ADMIN_ROLE_IDS # {}]_vars
  /\ [][users' = users]_vars
  /\ [][(msg'.kind = "cancelled" /\ msg.kind # "cancelled")
          => (roles' = roles /\ ur' = ur)]_vars
  /\ [][(msg.kind = "simulation" /\ msg'.kind = "executing")
          => ur'.invoker \cap ADMIN_ROLE_IDS # {}]_vars

\* The simulation result is on display and promises a whitelist grant, a
\* member without admin role has pressed confirm, and the member that
\* qualifies still lacks the role.
C7_Witness ==
  /\ msg.kind = "simulation" /\ msg.ephemeral = "denied"
  /\ msg.log.whitelist.added > 0
  /\ ur.pc = "done" /\ ur.isSimulation
  /\ \E i \in 1..Len(ur.players) :
       LET p == ur.players[i] IN
         /\ Resolvable(p)
         /\ p.points >= ur.thr.whitelist[1]
         /\ ~HasCategoryRole(roles[p.discord_id], "whitelist")


(***************************************************************************)
(* Properties of the bulk role assigner                                    *)
(***************************************************************************)
AwTotals == aw.totalAdded + aw.totalExisting + aw.totalErrors

AwUser == aw.verifiedUsers[aw.k]

AwResolvable(user) == user.discord_id # NoId /\ user.discord_id \in present

\* Verified rows whose member cannot be resolved.
Unresolvable ==
  LET NoMember(r) == ~AwResolvable(r) IN SelectSeq(VerifiedUsers(users), NoMember)

ReportBalanced(r) == r.added + r.existing + r.errors = r.processed

\* C8: every processed user increments exactly one of added, existing,
\* errors (no member or failed grant: errors; role held: existing; grant
\* made: added), so the three counters sum to the number of users processed:
\* in every progress report and every result message, at every batch
\* boundary of the paged revision, and user by user in between.
C8_CountersPartition ==
  /\ [](/\ aw.progress.kind = "progress" => ReportBalanced(aw.progress)
        /\ aw.final.kind = "final" => ReportBalanced(aw.final)
        /\ AwTotals = Len(aw.fetched)
        /\ (aw.rev = "paged" /\ aw.pc \in {"query", "final"})
             => AwTotals = aw.processedTotal
        /\ (aw.rev = "paged" /\ aw.pc = "done" /\ aw.status = "ok")
             => AwTotals = aw.processedTotal
        /\ (aw.rev = "paged" /\ aw.pc \in {"user", "report"})
             => AwTotals = aw.processedTotal + (aw.k - 1 - aw.i)
        /\ (aw.rev = "unpaged" /\ aw.pc = "done" /\ aw.status = "ok")
             => AwTotals = Len(aw.verifiedUsers))
  /\ [][(aw.pc = "user" /\ aw' # aw)
          => LET id == AwUser.discord_id
                 bump(f) == aw'[f] = aw[f] + 1
                 keep(f) == aw'[f] = aw[f]
             IN IF ~AwResolvable(AwUser)
                THEN bump("totalErrors") /\ keep("totalAdded") /\ keep("totalExisting")
                ELSE IF NEW_WANKME_ROLE_ID \in roles[id]
                THEN bump("totalExisting") /\ keep("totalAdded") /\ keep("totalErrors")
                ELSE IF NEW_WANKME_ROLE_ID \in roles'[id]
                THEN bump("totalAdded") /\ keep("totalExisting") /\ keep("totalErrors")
                ELSE bump("totalErrors") /\ keep("totalAdded") /\ keep("totalExisting")]_vars

\* A paged run over more than one page has finished with users of all three
\* kinds, among them a row without discord_id and a failed grant.
C8_Witness ==
  /\ aw.pc = "done" /\ aw.status = "ok" /\ aw.rev = "paged"
  /\ aw.processedTotal > chunkSize
  /\ aw.totalAdded > 0 /\ aw.totalExisting > 0
  /\ aw.totalErrors > Len(Unresolvable)
  /\ \E i \in 1..Len(aw.fetched) : aw.fetched[i] = NoId

\* C9: a second run in succession over the same population, when no grant
\* failed in the first, adds nothing and finds the role on every verified
\* user whose member resolves.
C9_Idempotence ==
  (/\ aw.pc = "done" /\ aw.status = "ok" /\ aw.runNo >= 2
   /\ aw.prev.kind = "final"
   /\ aw.prev.errors = Len(Unresolvable))
    => /\ aw.final.added = 0
       /\ aw.final.existing = Len(VerifiedUsers(users)) - Len(Unresolvable)

\* The second run has finished after a first run that granted the role to
\* some users and failed only on the users without a member.
C9_Witness ==
  /\ aw.pc = "done" /\ aw.status = "ok" /\ aw.runNo >= 2
  /\ aw.prev.kind = "final"
  /\ aw.prev.added > 1
  /\ aw.prev.errors = Len(Unresolvable)
  /\ Len(Unresolvable) > 1

\* C10: the assigner holds at most one page of chunkSize rows at a time, and
\* a completed run has processed every verified user exactly once and
\* reports as many processed users as there are verified users.
C10_PagingCursor ==
  /\ Len(aw.verifiedUsers) <= chunkSize
  /\ (aw.pc = "done" /\ aw.status = "ok")
       => LET verified == VerifiedUsers(users)
              ids == {verified[i].discord_id : i \in 1..Len(verified)}
          IN /\ Len(aw.fetched) = Len(verified)
             /\ {aw.fetched[i] : i \in 1..Len(aw.fetched)} = ids
             /\ Cardinality(ids) = Len(verified)
             /\ aw.final.processed = Len(verified)

\* Users processed since the last progress report of the run.
SinceLastReport == Len(aw.fetched) - aw.progress.processed

\* C11: at most batchSize users are processed between two consecutive
\* progress reports of a run, whatever the size of the population, and each
\* progress report shows the running totals and the number of users
\* processed at the moment it is sent.
C11_ProgressCadence ==
  /\ [](SinceLastReport <= batchSize)
  /\ [][(aw'.progress # aw.progress /\ aw'.progress.kind = "progress")
          => aw'.progress = Report("progress", aw.totalAdded, aw.totalExisting,
                                   aw.totalErrors, Len(aw.fetched))]_vars


(***************************************************************************)
(* Properties of the leaderboard                                           *)
(***************************************************************************)
\* The rows of the users table a leaderboard of teamOption ranks: of the
\* team, and not on the exclusion list.
Eligible(teamOption) ==
  {i \in 1..Len(users) :
     /\ users[i].discord_id \notin EXCLUDED_USER_IDS
     /\ teamOption = "all" \/ users[i].team = teamOption}

EligibleIds(teamOption) == {users[i].discord_id : i \in Eligible(teamOption)}

\* pos is a position the row of id has in a points-descending order of the
\* eligible rows: after every row with more points, among those with as many.
ValidPosition(teamOption, id, pos) ==
  \E i \in Eligible(teamOption) :
    /\ users[i].discord_id = id
    /\ Cardinality({j \in Eligible(teamOption) : users[j].points > users[i].points}) < pos
    /\ pos <= Cardinality({j \in Eligible(teamOption) : users[j].points >= users[i].points})

\* A leaderboard page is on display and the users table is the one it was
\* rendered from.
FreshPage == lb.kind = "page" /\ ~lb.stale

\* The number of pages n rows fill.
PagesFor(n) == CHOOSE t \in 0..n : (t - 1) * itemsPerPage < n /\ n <= t * itemsPerPage

\* C12: on an unchanged users table the entries of a page are non-increasing
\* in points, and the pages 1..totalPages, each fetched by its own query as
\* the command and the next button do, put end to end hold every eligible
\* user exactly once, in non-increasing order of points, equal points
\* included.
C12_RankingDeterminism ==
  /\ FreshPage
       => \A i \in 1..(Len(lb.entries) - 1) : lb.entries[i].points >= lb.entries[i + 1].points
  /\ (FreshPage /\ lb.walkFrom1 /\ lb.page = lb.totalPages)
       => /\ Len(lb.walk) = Cardinality(Eligible(lb.teamOption))
          /\ {lb.walk[i].discord_id : i \in 1..Len(lb.walk)} = EligibleIds(lb.teamOption)
          /\ \A i \in 1..Len(lb.walk) : lb.walk[i].position = i
          /\ \A i \in 1..(Len(lb.walk) - 1) : lb.walk[i].points >= lb.walk[i + 1].points

\* C13: no excluded id is among the entries of a page, excluded rows are not
\* counted for totalPages, and every displayed position and the "Your Rank"
\* value are positions in the order of the eligible rows alone.
C13_ExclusionCorrectness ==
  FreshPage
    => /\ \A i \in 1..Len(lb.entries) :
            /\ lb.entries[i].discord_id \notin EXCLUDED_USER_IDS
            /\ ValidPosition(lb.teamOption, lb.entries[i].discord_id, lb.entries[i].position)
       /\ lb.totalPages = PagesFor(Cardinality(Eligible(lb.teamOption)))
       /\ lb.yourRank # <<>>
            => /\ lb.owner \notin EXCLUDED_USER_IDS
               /\ ValidPosition(lb.teamOption, lb.owner, lb.yourRank[1])

\* A page is shown to a ranked caller while an excluded row of the team has
\* more points than the caller and than an entry of the page.
C13_Witness ==
  /\ FreshPage
  /\ lb.yourRank # <<>>
  /\ \E i \in 1..Len(users), j \in 1..Len(users), k \in 1..Len(lb.entries) :
       /\ users[i].discord_id \in EXCLUDED_USER_IDS
       /\ lb.teamOption = "all" \/ users[i].team = lb.teamOption
       /\ users[j].discord_id = lb.owner
       /\ users[i].points > users[j].points
       /\ users[i].points > lb.entries[k].points
       /\ lb.entries[k].position = Cardinality(Eligible(lb.teamOption))

\* C14: with n eligible rows totalPages is ceil(n / itemsPerPage); a page p
\* that is shown has 1 <= p <= totalPages and exactly
\* min(itemsPerPage, n - itemsPerPage * (p - 1)) entries, numbered from
\* itemsPerPage * (p - 1) + 1 onward; /leaderboard answers "No users found"
\* only for a page beyond totalPages, and such a page is never shown.
C14_PageArithmetic ==
  LET n == Cardinality(Eligible(lb.teamOption))
  IN /\ FreshPage
          => /\ lb.totalPages = PagesFor(n)
             /\ 1 <= lb.page /\ lb.page <= lb.totalPages
             /\ Len(lb.entries) = Min(itemsPerPage, n - itemsPerPage * (lb.page - 1))
             /\ \A i \in 1..Len(lb.entries) :
                  lb.entries[i].position = itemsPerPage * (lb.page - 1) + i
     /\ lb.kind = "nousers" => lb.page > PagesFor(n)

\* The last of three pages is shown, with fewer entries than a page holds.
C14_Witness ==
  /\ FreshPage
  /\ lb.totalPages = 3 /\ lb.page = 3
  /\ Cardinality(Eligible(lb.teamOption)) = 2 * itemsPerPage + 1
  /\ Len(lb.entries) = 1

\* C15: on every render "Your Rank" is a position of the caller in the
\* points-descending order of all eligible rows, whatever page is shown, and
\* it is left out exactly when the caller has no eligible row.
C15_GlobalSelfRank ==
  FreshPage
    => /\ lb.yourRank = <<>> <=> lb.owner \notin EligibleIds(lb.teamOption)
       /\ lb.yourRank # <<>> => ValidPosition(lb.teamOption, lb.owner, lb.yourRank[1])

\* C16: on every page shown Previous is disabled exactly when page <= 1 and
\* Next exactly when page >= totalPages, and the page number is within
\* 1..totalPages, rows inserted or deleted between presses included.
C16_NavigationClamping ==
  lb.kind = "page"
    => /\ lb.prevDisabled <=> lb.page <= 1
       /\ lb.nextDisabled <=> lb.page >= lb.totalPages
       /\ 1 <= lb.page /\ lb.page <= lb.totalPages
       /\ lb.prevId = PageCustomId("prev", lb.teamOption, lb.page)
       /\ lb.nextId = PageCustomId("next", lb.teamOption, lb.page)

\* A press on a page whose rows were deleted in the meantime was answered
\* with the error message instead of a page beyond the last one.
C16_Witness ==
  /\ lb.kind = "error"
  /\ ~storeDown
  /\ users # <<>>


(***************************************************************************)
(* Properties of the reconciler's abort paths                              *)
(***************************************************************************)
\* C20: a simulation result with its Proceed button, or a "Role updates
\* completed" result, is on display only for a run that read the players of
\* the target team: not for a run that returned because one of the six role
\* objects is missing or because the player query failed.
C20_AbortsReported ==
  (msg.kind \in {"simulation", "completed"} /\ ur.pc = "done")
    => ur.status \notin {"noroles", "queryerror"}


(***************************************************************************)
(* Properties of the other admin commands                                  *)
(***************************************************************************)
Admin(memberRoles) == memberRoles \cap ADMIN_ROLE_IDS # {}

\* The step is the command name.
Ran(name) == cmd.name = "none" /\ cmd'.name = name

\* C17: a /fine whose amount is greater than the current points of the target
\* is rejected, makes no store update and leaves the users table as it was;
\* no /fine leaves any balance below zero.
C17_FineFloor ==
  /\ [][(/\ Ran("fine")
         /\ cmd'.amount # <<>>
         /\ PointsOf(users, cmd'.target) # <<>>
         /\ cmd'.amount[1] > PointsOf(users, cmd'.target)[1])
          => /\ cmd'.reply # "fined"
             /\ "store_write" \notin cmd'.effects
             /\ users' = users]_vars
  /\ [][Ran("fine") => \A i \in DOMAIN users' : users'[i].points >= 0]_vars

\* An admin has fined member a, who holds 1 point, by 2: the fine was
\* rejected as exceeding the balance and a still holds 1 point.
C17_Witness ==
  /\ cmd.name = "fine" /\ cmd.reply = "insufficient"
  /\ Admin(cmd.invoker)
  /\ cmd.target = "a" /\ cmd.amount = <<2>>
  /\ PointsOf(users, "a") = <<1>>

\* The amount option is left out, zero or negative.
BadAmount(amount) == amount = <<>> \/ amount[1] <= 0

\* C18: a /transfer, /fine or /updatewhitelistminimum with a missing or
\* non-positive amount is rejected with a message, makes no store update and
\* leaves the users table and the whitelist minimum as they were.
C18_ValidationPrecedesMutation ==
  [][(/\ (Ran("transfer") \/ Ran("fine") \/ Ran("updatewhitelistminimum"))
      /\ BadAmount(cmd'.amount))
       => /\ cmd'.reply \in {"denied", "invalid"}
          /\ "store_write" \notin cmd'.effects
          /\ users' = users
          /\ WHITELIST_MINIMUM' = WHITELIST_MINIMUM]_vars

\* C19: an invoker without admin role is answered with the permission error
\* by every admin-only entry point, and the interaction reads and writes no
\* row, resolves no member, changes no role and starts no run.
C19_PermissionPrecedesWork ==
  /\ [][(cmd' # cmd /\ ~Admin(cmd'.invoker))
          => /\ cmd'.reply = "denied"
             /\ cmd'.effects = {}
             /\ UNCHANGED <<world, roles, WHITELIST_MINIMUM, ur, msg, aw>>]_vars
  /\ [][(msg.kind \in {"none", "denied"} /\ msg' # msg /\ ~Admin(msg'.invoker))
          => /\ msg'.kind = "denied" /\ msg'.ephemeral = "denied"
             /\ UNCHANGED <<world, roles, WHITELIST_MINIMUM, ur, aw>>]_vars
  /\ [][(/\ msg.kind = "simulation" /\ msg'.kind \in {"simulation", "executing"}
         /\ msg' # msg /\ ~Admin(msg'.invoker))
          => /\ msg'.kind = "simulation" /\ msg'.ephemeral = "denied"
             /\ UNCHANGED <<world, roles, WHITELIST_MINIMUM, ur, aw>>]_vars
  /\ [][(aw.pc \in {"idle", "done"} /\ aw' # aw /\ ~Admin(aw'.invoker))
          => /\ aw' = [aw EXCEPT !.ephemeral = "denied", !.invoker = aw'.invoker]
             /\ UNCHANGED <<world, roles, WHITELIST_MINIMUM, ur, msg>>]_vars
  /\ [](ur.pc # "idle" => Admin(ur.invoker))
  /\ []((aw.pc # "idle" /\ aw.ephemeral # "denied") => Admin(aw.invoker))

\* A member without admin role has asked for a transfer of 1 point from a,
\* who holds 1, to b: a transfer the handler would carry out for an admin.
C19_Witness ==
  /\ cmd.name = "transfer" /\ cmd.reply = "denied"
  /\ cmd.invoker = {MOOTARD_ROLE_ID}
  /\ cmd.target = "b" /\ cmd.amount = <<1>>
  /\ PointsOf(users, "a") = <<1>>
  /\ ~storeDown


(***************************************************************************)
(* Properties of the CSV export                                            *)
(***************************************************************************)
\* The flag a line must carry for a category.
ExpectedFlag(file, user, base, winner) ==
  IF /\ user.discord_id \in file.membersMap
     /\ (base \in roles[user.discord_id] \/ winner \in roles[user.discord_id])
  THEN <<"Y">> ELSE <<"N">>

\* The fields a line must carry, each as the text the template prints.
ExpectedFields(file, user) ==
  (IF file.includeDiscordId THEN <<(<<user.discord_id>>)>> ELSE <<>>)
    \o << <<user.address>>, IntToString(user.points),
          ExpectedFlag(file, user, WHITELIST_ROLE_ID, WL_WINNER_ROLE_ID),
          ExpectedFlag(file, user, MOOLALIST_ROLE_ID, ML_WINNER_ROLE_ID),
          ExpectedFlag(file, user, FREE_MINT_ROLE_ID, FREE_MINT_WINNER_ROLE_ID) >>

ExpectedHeader(file) ==
  IF file.includeDiscordId
  THEN <<"discord_id", ",", "address", ",", "points", ",", "wl_role", ",", "ml_role",
         ",", "free_mint_role">>
  ELSE <<"address", ",", "points", ",", "wl_role", ",", "ml_role", ",", "free_mint_role">>

CsvShape(file) ==
  LET lines == split(file.content, "\n")
      n == Len(file.data)
  IN /\ lines[1] = ExpectedHeader(file)
     /\ IF n = 0
        THEN lines = <<ExpectedHeader(file), <<>> >>
        ELSE /\ Len(lines) = n + 1
             /\ file.content[Len(file.content)] # "\n"
             /\ \A i \in 1..n :
                  split(lines[i + 1], ",") = ExpectedFields(file, file.data[i])

\* C21: every CSV is the header chosen by includeDiscordId and one
\* comma-joined line per input row, in input order, separated by single
\* newlines with none after the last row; a role flag is Y exactly when the
\* member is resolved and holds the base role or the winner variant.
C21_CsvShape ==
  \A k \in DOMAIN cmd.files : CsvShape(cmd.files[k])

\* The export of all players has a line for member a, resolved and flagged
\* by a winner variant alone, a line for the former member z, and a line
\* for a row without discord_id.
C21_Witness ==
  /\ cmd.name = "snapshot" /\ cmd.reply = "files"
  /\ LET file == cmd.files[3]
     IN /\ Len(file.data) = 5
        /\ "a" \in file.membersMap
        /\ WL_WINNER_ROLE_ID \in roles["a"] /\ WHITELIST_ROLE_ID \notin roles["a"]
        /\ "b" \notin file.membersMap
        /\ \E i \in 1..5 : file.data[i].discord_id = NoId

(***************************************************************************)
(* Properties of the zero-balance purge                                    *)
(***************************************************************************)
\* The rows of a member.
RowsOf(id) == LET WithId(r) == r.discord_id = id IN SelectSeq(users, WithId)

\* Members a /purgezerobalance step took a role from.
Purged == {id \in DOMAIN roles : roles'[id] # roles[id]}

\* C22: /purgezerobalance takes a role from a member only when the member's
\* row has points = 0 and a team, the role taken is the team role of that row
\* and the member held it; removedCount is the number of removals; a member
\* whose fetch or removal fails does not keep the others from being purged.
C22_PurgeOnlyZero ==
  [][Ran("purgezerobalance")
       => /\ \A id \in Purged :
               \E i \in 1..Len(RowsOf(id)) :
                 LET row == RowsOf(id)[i]
                 IN /\ row.points = 0
                    /\ row.team \in {"bullas", "beras"}
                    /\ TeamRole(row.team) \in roles[id]
                    /\ roles'[id] = roles[id] \ {TeamRole(row.team)}
          /\ cmd'.removed = Cardinality(Purged)
          /\ cmd'.reply = "purged"
               => \A id \in present \ cmd'.failing :
                    \A i \in 1..Len(RowsOf(id)) :
                      LET row == RowsOf(id)[i]
                      IN (row.points = 0 /\ row.team \in {"bullas", "beras"})
                           => TeamRole(row.team) \notin roles'[id]]_vars

\* Members a and b both have no points; the removal for a was rejected and a
\* keeps the Bull role, b has lost the Bear role and keeps the whitelist
\* role, and one removal is reported.
C22_Witness ==
  /\ cmd.name = "purgezerobalance" /\ cmd.reply = "purged"
  /\ cmd.failing = {"a"} /\ cmd.removed = 1
  /\ PointsOf(users, "a") = <<0>> /\ PointsOf(users, "b") = <<0>>
  /\ BULL_ROLE_ID \in roles["a"]
  /\ roles["b"] = {WHITELIST_ROLE_ID}

(***************************************************************************)
(* Properties of the reconciler's loop body                                *)
(***************************************************************************)
\* The grant of a category is due for the player and the gateway rejects it.
OwnGrantFails(player, rs, cat) ==
  /\ ~HasCategoryRole(rs, cat)
  /\ <<player.discord_id, BaseRole(cat)>> \in grantFails

\* C25: in a real run every category whose threshold a resolved member
\* reaches is counted, and granted when the member holds neither variant,
\* whatever happens in the other two categories: unless the grant of this
\* very category is rejected, the counter of the category moves as the
\* classification says and a due base role is on the member afterwards.
C25_IndependentCategories ==
  [][(ur.pc = "loop" /\ ur' # ur /\ ~ur.isSimulation /\ Resolvable(CurrentPlayer))
       => \A cat \in CategorySet :
            LET player == CurrentPlayer
                rs == roles[player.discord_id]
            IN (MeetsThreshold(player.points, ur.thr[cat]) /\ ~OwnGrantFails(player, rs, cat))
                 => /\ ur'.log[cat] = Classify(ur.log, player, rs, ur.thr)[cat]
                    /\ HasCategoryRole(roles'[player.discord_id], cat)]_vars

(***************************************************************************)
(* Properties of the confirmation                                          *)
(***************************************************************************)
\* The discord_ids of the rows a run goes through.
PlayerIds(run) == [i \in DOMAIN run.players |-> run.players[i].discord_id]

\* C26: the run a confirm_update press starts has the team type and the three
\* thresholds of the simulation whose button was pressed, negative ones
\* included, and goes through the rows of the same members as the simulation.
C26_ConfirmActsOnSimulated ==
  [][(msg.kind = "simulation" /\ msg'.kind = "executing")
       => /\ ur'.teamType = ur.teamType
          /\ ur'.thr = ur.thr
          /\ PlayerIds(ur') = PlayerIds(ur)]_vars

(***************************************************************************)
(* Properties of the point transfers                                       *)
(***************************************************************************)
RECURSIVE SumPoints(_)
SumPoints(rows) == IF rows = <<>> THEN 0 ELSE Head(rows).points + SumPoints(Tail(rows))

\* C27: a /transfer that replies "Successfully transferred" leaves the sum of
\* all points unchanged: the sender has amount less and the target amount
\* more, and a transfer to oneself leaves the balance as it was.
C27_TransfersConserve ==
  [][(Ran("transfer") /\ cmd'.reply = "transferred")
       => LET sender == cmd'.user
              target == cmd'.target
              amount == cmd'.amount[1]
          IN /\ SumPoints(users') = SumPoints(users)
             /\ IF sender = target
                THEN PointsOf(users', sender) = PointsOf(users, sender)
                ELSE /\ PointsOf(users', sender)[1] = PointsOf(users, sender)[1] - amount
                     /\ PointsOf(users', target)[1] = PointsOf(users, target)[1] + amount]_vars

(***************************************************************************)
(* Properties of one leaderboard render                                    *)
(***************************************************************************)
\* C29: when the page on display has an entry for the caller and shows
\* "Your Rank", the position of that entry is the rank shown.
C29_SelfRankAgreesWithPage ==
  (lb.kind = "page" /\ lb.yourRank # <<>>)
    => \A i \in DOMAIN lb.entries :
         lb.entries[i].discord_id = lb.owner
           => lb.entries[i].position = lb.yourRank[1]

(***************************************************************************)
(* Properties of handlers in progress at the same time                     *)
(***************************************************************************)
\* What a handler that replied success takes from the balance of id.
Outgoing(op, id) ==
  IF op.name = "fine" /\ op.target = id THEN op.amount[1]
  ELSE IF op.name = "transfer" /\ op.user = id THEN op.amount[1]
  ELSE 0

\* What a handler that replied success adds to the balance of id.
Incoming(op, id) == IF op.name = "transfer" /\ op.target = id THEN op.amount[1] ELSE 0

RECURSIVE NetOf(_, _)
NetOf(hs, id) ==
  IF hs = {} THEN 0
  ELSE LET h == CHOOSE x \in hs : TRUE
       IN Incoming(ops.of[h], id) - Outgoing(ops.of[h], id) + NetOf(hs \ {h}, id)

AllSucceeded ==
  \A h \in Handlers : ops.of[h].pc = "done" /\ ops.of[h].reply \in {"fined", "transferred"}

\* C28: when every /fine and /transfer has replied success, the balance of
\* every user is its initial balance minus the fines and the outgoing
\* transfers plus the incoming transfers.
C28_NoLostUpdates ==
  AllSucceeded
    => \A id \in {"a", "b"} :
         PointsOf(users, id)[1] = PointsOf(ops.start, id)[1] + NetOf(Handlers, id)

(***************************************************************************)
(* Properties of two confirmed calls in progress at the same time          *)
(***************************************************************************)
\* The roles after one call of updateRoles that runs alone from the roles rm.
RECURSIVE SingleRun(_, _)
SingleRun(run, rm) ==
  IF run.pc # "loop" THEN rm
  ELSE LET player == run.players[run.idx]
           id == player.discord_id
           rs == IF id \in DOMAIN rm THEN rm[id] ELSE {}
           s == PlayerBody(run, player, rs, present, grantFails)
       IN SingleRun([run EXCEPT !.log = s.log, !.idx = @ + 1, !.pc = LoopPc(run, s.threw)],
                    IF id \in DOMAIN rm THEN [rm EXCEPT ![id] = s.rs] ELSE rm)

BothDone == \A h \in Handlers : runs.of[h].run.pc = "done"

\* The grants of BaseRole(cat) the two calls counted.
CountedAdds(cat) == runs.of[1].run.log[cat].added + runs.of[2].run.log[cat].added

\* The members that gained BaseRole(cat).
Gained(cat) == {id \in DOMAIN roles : BaseRole(cat) \in roles[id] \ runs.roles0[id]}

\* C24: when two confirmed calls with the same team and thresholds have
\* returned, whatever their interleaving, every member holds the roles one
\* call alone would have left.
C24_ConcurrentRunsBenign ==
  BothDone
    => roles = SingleRun([runs.of[1].run EXCEPT !.pc = "loop", !.idx = 1, !.log = EmptyLog],
                         runs.roles0)

\* Both calls were in their loops at the same time, and both counted a grant
\* of the same role to the same member.
C24_Witness ==
  /\ BothDone
  /\ runs.overlapped
  /\ \E cat \in CategorySet : CountedAdds(cat) > Cardinality(Gained(cat))

(***************************************************************************)
(* Properties of the verification polling                                  *)
(***************************************************************************)
\* The interval of a /wankme that issued a token is cleared in the end.
TimerEventuallyCleared == (wk.timer = "running") ~> (wk.timer = "cleared")

\* C30: the completion step of one /wankme (grant of the verified role,
\* removal of the Mootard role, follow-up) runs at most once, for every
\* interleaving of the ticks with the lookups.
C30_CompletesAtMostOnce == wk.completions <= 1 /\ wk.followUps <= 1

(***************************************************************************)
(* Properties of every operation together                                  *)
(***************************************************************************)
\* The whitelist, moolalist and free-mint roles, their winner variants and
\* the verified flag.
FlagRoleIds == ThresholdRoleIds \cup {NEW_WANKME_ROLE_ID}

\* The roles a step takes from a member.
Revoked(id) == roles[id] \ roles'[id]

\* C23: no step of any operation takes a flag role from a member; a step
\* takes a Bull or Bear role only in /purgezerobalance and the Mootard role
\* only in the completion step of a verification.
C23_FlagRolesNeverRevoked ==
  [][\A id \in DOMAIN roles :
       /\ Revoked(id) \cap FlagRoleIds = {}
       /\ Revoked(id) \subseteq {BULL_ROLE_ID, BEAR_ROLE_ID, MOOTARD_ROLE_ID}
       /\ Revoked(id) \cap {BULL_ROLE_ID, BEAR_ROLE_ID} # {} => Ran("purgezerobalance")
       /\ MOOTARD_ROLE_ID \in Revoked(id) => wk'.completions = wk.completions + 1]_vars

\* A purge has taken a team role and a verification has taken the Mootard
\* role from a member that holds flag roles.
C23_Witness ==
  /\ cmd.name = "purgezerobalance" /\ cmd.removed > 0
  /\ wk.completions > 0
  /\ \E id \in GuildIds :
       /\ roles[id] \cap FlagRoleIds # {}
       /\ MOOTARD_ROLE_ID \notin roles[id]
       /\ roles[id] \cap {BULL_ROLE_ID, BEAR_ROLE_ID} = {}
====
